---------------------------- MODULE Spec2Model ----------------------------
(***************************************************************************)
(* The document pipeline of main.py (dynamic_document_processor, its       *)
(* ingest and status endpoints) over the event log of agi_memory.py.       *)
(*                                                                         *)
(* A file name is a sequence of tokens; `kw in file_path.lower()` is read  *)
(* at token granularity.  A path is a record [dir, base]; os.path.join and *)
(* os.path.basename act on it.  The file system is a function from the     *)
(* paths that exist to the correlation id whose bytes the file holds.      *)
(* All coroutines run on one asyncio event loop: `current` is the task the *)
(* loop is executing, released only at an await.                           *)
(*                                                                         *)
(* The pure functions (the classifiers, get_recent_events) are also run on *)
(* inputs drawn from bounded sets: `probe` holds one call and its result.  *)
(*                                                                         *)
(* The creative cycle of fastapi_main.py (EchoConductor and its stages)    *)
(* works on Python dicts: `heap` holds the dicts the stages allocate, a    *)
(* reference is an index into it, `locals` binds the local variables of    *)
(* run_creativity_cycle and `calls` records each stage call made.  `ws` is *)
(* the WebSocket connection of websocket_endpoint.                         *)
(***************************************************************************)
EXTENDS Integers, Sequences, FiniteSets, TLC

VARIABLES lifespan, on_startup, fs, db, clock, current, pc, upload,
          file_path, agi_determined_type, processing_modules, k, exc,
          final_path, nfaults, faultsite, injected, response, status_code,
          probe, input_data, heap, locals, calls, ws

vars == <<lifespan, on_startup, fs, db, clock, current, pc, upload,
          file_path, agi_determined_type, processing_modules, k, exc,
          final_path, nfaults, faultsite, injected, response, status_code,
          probe, input_data, heap, locals, calls, ws>>

---------------------------------------------------------------------------
(* Bounds of the model *)

\* total number of faults (storage, I/O) the environment raises in a behaviour
MaxFaults == 1

---------------------------------------------------------------------------
(* Values *)

\* uuid4 values, in the order ingest_document hands them out
IdOrder == <<"id1", "id2">>

CorrelationIds == {IdOrder[n] : n \in 1..Len(IdOrder)}

\* an id no request was ever given
UnknownId == "id0"

\* None, and the falsy empty string
None == ""

NoTask == ""

\* the loop is executing a request handler that has computed its response
RequestTask == "request"

NoPath == [dir |-> "", base |-> <<>>]

NoExc == "<no exception>"

NoResponse == [correlation_id |-> None]

\* no call of a pure function is being examined
NoProbe == [op |-> "none"]

\* no creative request body, and a cycle whose local variables are unbound
NoInput == << >>

NoLocals == << >>

\* no WebSocket connection has been made
NoSocket == [state |-> "none"]

\* Default `limit` of get_recent_events
DefaultLimit == 10

DYNAMIC_DIRS ==
    [contract |-> "/mnt/data/processed/contracts",
     research_paper |-> "/mnt/data/processed/papers",
     invoice |-> "/mnt/data/processed/invoices",
     quarantine |-> "/mnt/data/quarantine",
     temp_staging |-> "/tmp/agi_staging"]

\* str.lower() on the tokens used
Lower(tok) ==
    CASE tok = "INVOICE" -> "invoice"
      [] tok = "Legal" -> "legal"
      [] tok = "Contract" -> "contract"
      [] OTHER -> tok

\* `kw in s.lower()` for a token sequence s
ContainsLower(s, kw) == \E n \in 1..Len(s) : Lower(s[n]) = kw

\* priority: null in the request (Optional[int]); a given priority p is <<p>>
NoPriority == <<>>

\* The requests of the model: file name, tags, priority
Uploads ==
    { [filename |-> <<"acme", "contract", "v2.pdf">>, tags |-> <<>>, priority |-> <<5>>],
      [filename |-> <<"random", "notes.txt">>, tags |-> <<>>, priority |-> <<5>>],
      [filename |-> <<"Contract", "high_risk_flag">>, tags |-> <<>>, priority |-> <<1>>],
      [filename |-> <<"random", "notes.txt">>, tags |-> <<"Legal">>, priority |-> NoPriority] }

NoUpload == [filename |-> <<>>, tags |-> <<>>, priority |-> NoPriority]

\* str(e) of the exceptions the code can raise
StorageFault == "OSError: event store unavailable"
MoveFault == "OSError: cannot move file"
FileNotFound == "FileNotFoundError: No such file or directory"
PriorityTypeError == "TypeError: unsupported operand type(s) for /: 'NoneType' and 'int'"
StagingFault == "OSError: cannot write the staged file"

---------------------------------------------------------------------------
(* Paths and the file system *)

join(dir, base) == [dir |-> dir, base |-> base]

basename(path) == path.base

\* the tokens of the whole path string
PathTokens(path) == <<path.dir>> \o path.base

\* sanitize_filename: os.path.basename(filename).replace("..", "_").strip()
sanitize_filename(filename) ==
    [n \in DOMAIN filename |-> IF filename[n] = ".." THEN "_" ELSE filename[n]]

exists(path) == path \in DOMAIN fs

\* a move that leaves the source in place
Copied(f, src, dst) ==
    [p \in DOMAIN f \cup {dst} |-> IF p = dst THEN f[src] ELSE f[p]]

\* shutil.move(src, dst) on a file system f, src present
Moved(f, src, dst) ==
    [p \in (DOMAIN f \ {src}) \cup {dst} |-> IF p = dst THEN f[src] ELSE f[p]]

---------------------------------------------------------------------------
(* agi_memory.py *)

\* the record store_event inserts
event_record(event_type, data) ==
    [timestamp |-> clock, event_type |-> event_type, data |-> data]

\* a store that puts the new record in front of the others
store_event_at_front(event_type, data) ==
    /\ db' = <<event_record(event_type, data)>> \o db
    /\ clock' = clock + 1

\* a store that rewrites the file with the new record alone
store_event_overwriting(event_type, data) ==
    /\ db' = <<event_record(event_type, data)>>
    /\ clock' = clock + 1

\* store_event: db.insert(event_record)
store_event(event_type, data) ==
    /\ db' = Append(db, event_record(event_type, data))
    /\ clock' = clock + 1

HasCorrelationId(e, cid) ==
    /\ "correlation_id" \in DOMAIN e.data
    /\ e.data.correlation_id = cid

\* db.search(Event.data.correlation_id == correlation_id)
search(table, cid) == SelectSeq(table, LAMBDA e : HasCorrelationId(e, cid))

\* sorted(results, key=timestamp, reverse=True): stable, descending
RECURSIVE InsertDesc(_, _)
InsertDesc(sorted, e) ==
    IF sorted = <<>> THEN <<e>>
    ELSE IF Head(sorted).timestamp >= e.timestamp
         THEN <<Head(sorted)>> \o InsertDesc(Tail(sorted), e)
         ELSE <<e>> \o sorted

\* the results returned in log order, the sort forgotten
Unsorted(results) == results

RECURSIVE SortDesc(_)
SortDesc(results) ==
    IF results = <<>> THEN <<>>
    ELSE InsertDesc(SortDesc(SubSeq(results, 1, Len(results) - 1)),
                    results[Len(results)])

\* Python's seq[:limit]; a negative limit counts from the end
SliceTo(seq, limit) ==
    LET stop == IF limit >= 0
                THEN IF limit < Len(seq) THEN limit ELSE Len(seq)
                ELSE IF Len(seq) + limit > 0 THEN Len(seq) + limit ELSE 0
    IN  SubSeq(seq, 1, stop)

get_recent_events(table, limit, correlation_id) ==
    LET results == IF correlation_id # None THEN search(table, correlation_id)
                   ELSE table
        sorted_results == SortDesc(results)
    IN  SliceTo(sorted_results, limit)

---------------------------------------------------------------------------
(* main.py: get_document_status *)

\* latest_event.get("data", {}).get("module", data.get("status", default))
last_action_of(e) ==
    IF "module" \in DOMAIN e.data THEN e.data.module
    ELSE IF "status" \in DOMAIN e.data THEN e.data.status
    ELSE "No specific action data."

\* get_document_status with the event's default status used for the empty list
get_document_status_event_default(table, correlation_id) ==
    LET events == get_recent_events(table, DefaultLimit, correlation_id)
        latest_event == events[Len(events)]
    IN  [correlation_id |-> correlation_id,
         agi_processing_status |->
             IF events # <<>> THEN latest_event.event_type ELSE "Unknown Event",
         last_agi_action |->
             IF events # <<>> THEN last_action_of(latest_event)
             ELSE "No specific action data.",
         agi_event_history |-> events]

get_document_status(table, correlation_id) ==
    LET events == get_recent_events(table, DefaultLimit, correlation_id)
        latest_event == events[Len(events)]
    IN  [correlation_id |-> correlation_id,
         agi_processing_status |->
             IF events # <<>> THEN latest_event.event_type ELSE "Unknown",
         last_agi_action |->
             IF events # <<>> THEN last_action_of(latest_event)
             ELSE "No AGI action recorded yet.",
         agi_event_history |-> events]

---------------------------------------------------------------------------
(* main.py: classification and workflow assembly *)

\* lines 89-97
\* a classifier that also looks at how much the log holds
ClassifyOnQuietLog(path, tags) ==
    IF Len(db) <= 1 /\ ContainsLower(tags, "legal") THEN "contract" ELSE "unknown"

\* a classifier that tries the invoice rule before the contract rule
ClassifyInvoiceFirst(path, tags) ==
    IF \/ ContainsLower(PathTokens(path), "invoice")
       \/ ContainsLower(tags, "billing")
    THEN "invoice"
    ELSE IF \/ ContainsLower(PathTokens(path), "contract")
            \/ ContainsLower(PathTokens(path), "agreement")
            \/ ContainsLower(tags, "legal")
    THEN "contract"
    ELSE IF \/ ContainsLower(PathTokens(path), "research")
            \/ ContainsLower(PathTokens(path), "paper")
    THEN "research_paper"
    ELSE "unknown"

Classify(path, tags) ==
    IF \/ ContainsLower(PathTokens(path), "contract")
       \/ ContainsLower(PathTokens(path), "agreement")
       \/ ContainsLower(tags, "legal")
    THEN "contract"
    ELSE IF \/ ContainsLower(PathTokens(path), "invoice")
            \/ ContainsLower(tags, "billing")
    THEN "invoice"
    ELSE IF \/ ContainsLower(PathTokens(path), "research")
            \/ ContainsLower(PathTokens(path), "paper")
    THEN "research_paper"
    ELSE "unknown"

\* the classification of echo_creo_core/main.py (fastapi_main.py lines
\* 122-126): the same ladder without the research_paper rule
ClassifyCreoCore(path, tags) ==
    IF \/ ContainsLower(PathTokens(path), "contract")
       \/ ContainsLower(PathTokens(path), "agreement")
       \/ ContainsLower(tags, "legal")
    THEN "contract"
    ELSE IF \/ ContainsLower(PathTokens(path), "invoice")
            \/ ContainsLower(tags, "billing")
    THEN "invoice"
    ELSE "unknown"

\* a registry whose lists have six stages
WorkflowSixStages(type) ==
    <<"deep_ocr_segmentation", "semantic_clause_extraction",
      "entity_resolution_graph_update", "predictive_risk_assessment_model",
      "general_content_indexing", "topic_modeling_discovery">>

\* a registry that knows the fallback list only
WorkflowFallbackOnly(type) ==
    <<"general_content_indexing", "topic_modeling_discovery">>

\* a registry without its else branch: processing_modules stays []
WorkflowNoDefault(type) ==
    IF type = "contract"
    THEN <<"deep_ocr_segmentation", "semantic_clause_extraction",
           "entity_resolution_graph_update", "predictive_risk_assessment_model">>
    ELSE IF type = "invoice"
    THEN <<"adaptive_form_recognition", "line_item_data_extraction_nlp",
           "automated_reconciliation_engine">>
    ELSE IF type = "research_paper"
    THEN <<"scientific_abstract_summarization", "citation_network_mapping",
           "novelty_detection_algorithm">>
    ELSE <<>>

\* the registry of echo_creo_core/main.py (fastapi_main.py lines 130-134)
WorkflowCreoCore(type) ==
    IF type = "contract"
    THEN <<"deep_ocr_segmentation", "semantic_clause_extraction",
           "entity_resolution_graph_update", "predictive_risk_assessment_model">>
    ELSE <<"general_content_indexing", "topic_modeling_discovery">>

\* lines 107-117
Workflow(type) ==
    IF type = "contract"
    THEN <<"deep_ocr_segmentation", "semantic_clause_extraction",
           "entity_resolution_graph_update", "predictive_risk_assessment_model">>
    ELSE IF type = "invoice"
    THEN <<"adaptive_form_recognition", "line_item_data_extraction_nlp",
           "automated_reconciliation_engine">>
    ELSE IF type = "research_paper"
    THEN <<"scientific_abstract_summarization", "citation_network_mapping",
           "novelty_detection_algorithm">>
    ELSE <<"general_content_indexing", "topic_modeling_discovery">>

\* a lookup that always takes the default
FinalDirDefault(type) == DYNAMIC_DIRS["quarantine"]

\* DYNAMIC_DIRS.get(agi_determined_type, DYNAMIC_DIRS["quarantine"])
FinalDir(type) ==
    IF type \in DOMAIN DYNAMIC_DIRS THEN DYNAMIC_DIRS[type]
    ELSE DYNAMIC_DIRS["quarantine"]

---------------------------------------------------------------------------
(* State after the module is imported: directories made, no request yet *)

InitServer ==
    /\ lifespan = "created"
    /\ on_startup = {}
    /\ fs = << >>
    /\ clock = 1
    /\ current = NoTask
    /\ pc = [i \in CorrelationIds |-> "none"]
    /\ upload = [i \in CorrelationIds |-> NoUpload]
    /\ file_path = [i \in CorrelationIds |-> NoPath]
    /\ agi_determined_type = [i \in CorrelationIds |-> "unknown"]
    /\ processing_modules = [i \in CorrelationIds |-> <<>>]
    /\ k = [i \in CorrelationIds |-> 1]
    /\ exc = [i \in CorrelationIds |-> NoExc]
    /\ final_path = [i \in CorrelationIds |-> NoPath]
    /\ nfaults = [i \in CorrelationIds |-> 0]
    /\ faultsite = [i \in CorrelationIds |-> "none"]
    /\ injected = 0
    /\ response = NoResponse
    /\ status_code = [i \in CorrelationIds |-> None]
    /\ input_data = [i \in CorrelationIds |-> NoInput]
    /\ locals = [i \in CorrelationIds |-> NoLocals]
    /\ calls = [i \in CorrelationIds |-> <<>>]
    /\ ws = NoSocket

Init ==
    /\ InitServer
    /\ heap = <<>>
    /\ db = <<>>
    /\ probe = NoProbe

---------------------------------------------------------------------------
(* Faults *)

\* the environment may fail one more storage or file operation
MayFault == injected < MaxFaults

\* an exception is raised in run i at `site`
Raised(i, site, inject) ==
    /\ nfaults' = [nfaults EXCEPT ![i] = @ + 1]
    /\ faultsite' = [faultsite EXCEPT ![i] = IF @ = "none" THEN site ELSE @]
    /\ injected' = injected + inject

NoFault == UNCHANGED <<nfaults, faultsite, injected>>

\* an except clause that swallows the exception and returns
ExceptPass(i, e) ==
    /\ pc' = [pc EXCEPT ![i] = "done"]
    /\ exc' = [exc EXCEPT ![i] = e]

\* `except Exception as e` of the try block, lines 164-165
Except(i, e) ==
    /\ pc' = [pc EXCEPT ![i] = "handler"]
    /\ exc' = [exc EXCEPT ![i] = e]

\* the exception leaves dynamic_document_processor: the task ends with it
Escapes(i, e) ==
    /\ pc' = [pc EXCEPT ![i] = "crashed"]
    /\ exc' = [exc EXCEPT ![i] = e]
    /\ current' = NoTask

---------------------------------------------------------------------------
(* The application's lifespan and ingest_document *)

\* The server's lifespan startup: the "startup" event handlers registered so
\* far are called once, before any request is served.
Startup ==
    /\ lifespan = "created"
    /\ lifespan' = "serving"
    /\ pc' = [i \in CorrelationIds |->
                 IF i \in on_startup /\ pc[i] = "staged" THEN "scheduled" ELSE pc[i]]
    /\ UNCHANGED <<on_startup, fs, db, clock, current, upload, file_path,
                   agi_determined_type, processing_modules, k, exc, final_path,
                   nfaults, faultsite, injected, response, status_code, probe,
                   input_data, heap, locals, calls, ws>>

\* str(uuid.uuid4()): an id never handed out before
uuid4 ==
    LET n == CHOOSE n \in 1..Len(IdOrder) :
                 /\ pc[IdOrder[n]] = "none"
                 /\ \A m \in 1..(n - 1) : pc[IdOrder[m]] # "none"
    IN  IdOrder[n]

\* the payload of the ingestion error event without its correlation id
ingestion_error_data_no_id(i, sanitized_filename) ==
    [error |-> StagingFault, filename |-> sanitized_filename]

\* the payload of the ingestion error event, line 219
ingestion_error_data(i, sanitized_filename) ==
    [correlation_id |-> i, error |-> StagingFault, filename |-> sanitized_filename]

\* ingest_document, lines 187-220.  Either the file is staged, the processor
\* is registered as a "startup" event handler and the JSONResponse with the
\* correlation id is returned (200); or aiofiles.open, file.read or
\* buffer.write raises, the except block stores document_ingestion_error and
\* raises HTTPException(500).  A failed open leaves no file; a failed read or
\* write leaves the file that open created.  If store_event raises in the
\* except block, that exception leaves the handler and the server answers 500.
\* a staged file named after the upload alone
staged_name_bare(i, sanitized_filename) == sanitized_filename

\* f"{correlation_id}_{sanitized_filename}", line 190
staged_name(i, sanitized_filename) == <<i>> \o sanitized_filename

ingest_document(i, u) ==
    /\ lifespan = "serving"
    /\ current = NoTask
    /\ \E j \in CorrelationIds : pc[j] = "none"
    /\ i = uuid4
    /\ LET sanitized_filename == sanitize_filename(u.filename)
           initial_save_path ==
               join(DYNAMIC_DIRS["temp_staging"],
                    staged_name(i, sanitized_filename))
           staged == [p \in DOMAIN fs \cup {initial_save_path} |->
                         IF p = initial_save_path THEN i ELSE fs[p]]
       IN  \/ /\ fs' = staged
              /\ file_path' = [file_path EXCEPT ![i] = initial_save_path]
              /\ on_startup' = on_startup \cup {i}
              /\ pc' = [pc EXCEPT ![i] = "staged"]
              /\ status_code' = [status_code EXCEPT ![i] = "200"]
              /\ UNCHANGED <<db, clock>>
              /\ NoFault
           \/ /\ MayFault
              /\ fs' \in {fs, staged}
              /\ pc' = [pc EXCEPT ![i] = "ingest_failed"]
              /\ status_code' = [status_code EXCEPT ![i] = "500"]
              /\ faultsite' = [faultsite EXCEPT ![i] = "staging"]
              /\ \/ /\ store_event("document_ingestion_error",
                                    ingestion_error_data(i, sanitized_filename))
                    /\ nfaults' = [nfaults EXCEPT ![i] = @ + 1]
                    /\ injected' = injected + 1
                 \/ /\ injected + 1 < MaxFaults
                    /\ nfaults' = [nfaults EXCEPT ![i] = @ + 2]
                    /\ injected' = injected + 2
                    /\ UNCHANGED <<db, clock>>
              /\ UNCHANGED <<file_path, on_startup>>
    /\ upload' = [upload EXCEPT ![i] = u]
    /\ UNCHANGED <<lifespan, current, agi_determined_type, processing_modules,
                   k, exc, final_path, response, probe,
                   input_data, heap, locals, calls, ws>>

\* A caller other than the endpoint calls
\* dynamic_document_processor(file_path, initial_metadata, correlation_id)
\* for a staged item and schedules the coroutine on the loop.
InvokeProcessor(i) ==
    /\ pc[i] = "staged"
    /\ pc' = [pc EXCEPT ![i] = "scheduled"]
    /\ UNCHANGED <<lifespan, on_startup, fs, db, clock, current, upload,
                   file_path, agi_determined_type, processing_modules, k, exc,
                   final_path, nfaults, faultsite, injected, response,
                   status_code, probe,
                   input_data, heap, locals, calls, ws>>

---------------------------------------------------------------------------
(* dynamic_document_processor, main.py lines 60-173 *)

frame_step ==
    <<lifespan, on_startup, upload, response, status_code, probe, input_data,
      heap, locals, calls, ws>>

\* initial_metadata.dict(): the fields of UploadMetadata the request carries
initial_metadata(i) ==
    [field \in DOMAIN upload[i] \ {"filename"} |-> upload[i][field]]

\* line 78, outside the try block
IngestionStart(i) ==
    /\ pc[i] = "scheduled"
    /\ current = NoTask
    /\ \/ /\ store_event("document_ingestion_start",
                         [correlation_id |-> i, file_path |-> file_path[i],
                          metadata |-> initial_metadata(i)])
          /\ pc' = [pc EXCEPT ![i] = "classify"]
          /\ current' = i
          /\ NoFault
          /\ UNCHANGED exc
       \/ /\ MayFault
          /\ Raised(i, "start", 1)
          /\ Escapes(i, StorageFault)
          /\ UNCHANGED <<db, clock>>
    /\ UNCHANGED <<fs, file_path, agi_determined_type, processing_modules, k,
                   final_path>>
    /\ UNCHANGED frame_step

\* lines 89-99
Classification(i) ==
    /\ pc[i] = "classify"
    /\ current = i
    /\ LET type == Classify(file_path[i], upload[i].tags)
       IN  \/ /\ store_event("document_classification",
                             [correlation_id |-> i, agi_determined_type |-> type])
              /\ agi_determined_type' = [agi_determined_type EXCEPT ![i] = type]
              /\ pc' = [pc EXCEPT ![i] = "assemble"]
              /\ NoFault
              /\ UNCHANGED exc
           \/ /\ MayFault
              /\ Raised(i, "classification", 1)
              /\ Except(i, StorageFault)
              /\ agi_determined_type' = [agi_determined_type EXCEPT ![i] = type]
              /\ UNCHANGED <<db, clock>>
    /\ UNCHANGED <<fs, current, file_path, processing_modules, k, final_path>>
    /\ UNCHANGED frame_step

\* lines 107-121
WorkflowAssembly(i) ==
    /\ pc[i] = "assemble"
    /\ current = i
    /\ LET modules == Workflow(agi_determined_type[i])
       IN  /\ processing_modules' = [processing_modules EXCEPT ![i] = modules]
           /\ \/ /\ store_event("workflow_assembly",
                                [correlation_id |-> i, workflow |-> modules])
                 /\ pc' = [pc EXCEPT ![i] = "loop"]
                 /\ NoFault
                 /\ UNCHANGED exc
              \/ /\ MayFault
                 /\ Raised(i, "assembly", 1)
                 /\ Except(i, StorageFault)
                 /\ UNCHANGED <<db, clock>>
    /\ UNCHANGED <<fs, current, file_path, agi_determined_type, k, final_path>>
    /\ UNCHANGED frame_step

\* a loop that stops before the last module
LoopDoneEarly(i) == k[i] >= Len(processing_modules[i])

\* line 128: the for loop has gone through every module
LoopDone(i) == k[i] > Len(processing_modules[i])

\* lines 128-132: the next module, or the end of the loop; the argument of
\* asyncio.sleep is evaluated (priority / 100) and the task suspends
LoopHead(i) ==
    /\ pc[i] = "loop"
    /\ current = i
    /\ IF LoopDone(i)
       THEN /\ pc' = [pc EXCEPT ![i] = "move"]
            /\ NoFault
            /\ UNCHANGED <<exc, current>>
       ELSE IF upload[i].priority = NoPriority
       THEN /\ Raised(i, "stage", 0)
            /\ Except(i, PriorityTypeError)
            /\ UNCHANGED current
       ELSE /\ pc' = [pc EXCEPT ![i] = "sleeping"]
            /\ current' = NoTask
            /\ NoFault
            /\ UNCHANGED exc
    /\ UNCHANGED <<fs, db, clock, file_path, agi_determined_type,
                   processing_modules, k, final_path>>
    /\ UNCHANGED frame_step

\* the loop resumes the task after asyncio.sleep
Resume(i) ==
    /\ pc[i] \in {"sleeping", "sleeping_alt"}
    /\ current = NoTask
    /\ current' = i
    /\ pc' = [pc EXCEPT ![i] = IF @ = "sleeping" THEN "risk_check" ELSE "record"]
    /\ UNCHANGED <<fs, db, clock, file_path, agi_determined_type,
                   processing_modules, k, exc, final_path>>
    /\ NoFault
    /\ UNCHANGED frame_step

\* lines 135-138: the alternative risk model awaits once more
RiskCheck(i) ==
    /\ pc[i] = "risk_check"
    /\ current = i
    /\ IF /\ processing_modules[i][k[i]] = "predictive_risk_assessment_model"
          /\ ContainsLower(PathTokens(file_path[i]), "high_risk_flag")
       THEN /\ pc' = [pc EXCEPT ![i] = "sleeping_alt"]
            /\ current' = NoTask
       ELSE /\ pc' = [pc EXCEPT ![i] = "record"]
            /\ UNCHANGED current
    /\ UNCHANGED <<fs, db, clock, file_path, agi_determined_type,
                   processing_modules, k, exc, final_path>>
    /\ NoFault
    /\ UNCHANGED frame_step

\* a loop that steps over every second module
NextModuleSkipping(n) == n + 2

\* the index the for loop takes after module k
NextModule(n) == n + 1

\* line 142, and the loop's advance to the next module
ModuleExecution(i) ==
    /\ pc[i] = "record"
    /\ current = i
    /\ \/ /\ store_event("module_execution",
                         [correlation_id |-> i,
                          module |-> processing_modules[i][k[i]],
                          status |-> "completed"])
          /\ k' = [k EXCEPT ![i] = NextModule(@)]
          /\ pc' = [pc EXCEPT ![i] = "loop"]
          /\ NoFault
          /\ UNCHANGED exc
       \/ /\ MayFault
          /\ Raised(i, "stage", 1)
          /\ Except(i, StorageFault)
          /\ UNCHANGED <<db, clock, k>>
    /\ UNCHANGED <<fs, current, file_path, agi_determined_type,
                   processing_modules, final_path>>
    /\ UNCHANGED frame_step

\* lines 148-150
MoveToFinal(i) ==
    /\ pc[i] = "move"
    /\ current = i
    /\ LET final_processed_dir == FinalDir(agi_determined_type[i])
           final_path_in_agi_space ==
               join(final_processed_dir, basename(file_path[i]))
       IN  /\ final_path' = [final_path EXCEPT ![i] = final_path_in_agi_space]
           /\ IF ~exists(file_path[i])
              THEN /\ Raised(i, "move", 0)
                   /\ Except(i, FileNotFound)
                   /\ UNCHANGED fs
              ELSE \/ /\ fs' = Moved(fs, file_path[i], final_path_in_agi_space)
                      /\ pc' = [pc EXCEPT ![i] = "complete"]
                      /\ NoFault
                      /\ UNCHANGED exc
                   \/ /\ MayFault
                      /\ Raised(i, "move", 1)
                      /\ Except(i, MoveFault)
                      /\ UNCHANGED fs
    /\ UNCHANGED <<db, clock, current, file_path, agi_determined_type,
                   processing_modules, k>>
    /\ UNCHANGED frame_step

\* line 152
ProcessingComplete(i) ==
    /\ pc[i] = "complete"
    /\ current = i
    /\ \/ /\ store_event("document_processing_complete",
                         [correlation_id |-> i, final_path |-> final_path[i]])
          /\ pc' = [pc EXCEPT ![i] = "learn"]
          /\ NoFault
          /\ UNCHANGED exc
       \/ /\ MayFault
          /\ Raised(i, "complete", 1)
          /\ Except(i, StorageFault)
          /\ UNCHANGED <<db, clock>>
    /\ UNCHANGED <<fs, current, file_path, agi_determined_type,
                   processing_modules, k, final_path>>
    /\ UNCHANGED frame_step

\* line 161, and the return of the coroutine
LearningCycle(i) ==
    /\ pc[i] = "learn"
    /\ current = i
    /\ \/ /\ store_event("agi_learning_cycle",
                         [correlation_id |-> i, status |-> "re-theorizing completed"])
          /\ pc' = [pc EXCEPT ![i] = "done"]
          /\ current' = NoTask
          /\ NoFault
          /\ UNCHANGED exc
       \/ /\ MayFault
          /\ Raised(i, "learning", 1)
          /\ Except(i, StorageFault)
          /\ UNCHANGED <<db, clock, current>>
    /\ UNCHANGED <<fs, file_path, agi_determined_type, processing_modules, k,
                   final_path>>
    /\ UNCHANGED frame_step

\* the quarantine path built without os.path.basename
quarantine_path_no_basename(i) ==
    join(DYNAMIC_DIRS["quarantine"], PathTokens(file_path[i]))

\* os.path.join(DYNAMIC_DIRS["quarantine"], os.path.basename(file_path))
quarantine_path(i) == join(DYNAMIC_DIRS["quarantine"], basename(file_path[i]))

\* lines 170-171, in the except block: a fault here leaves the coroutine
Quarantine(i) ==
    /\ pc[i] = "handler"
    /\ current = i
    /\ IF ~exists(file_path[i])
       THEN /\ Raised(i, "quarantine_move", 0)
            /\ Escapes(i, FileNotFound)
            /\ UNCHANGED fs
       ELSE \/ /\ fs' = Moved(fs, file_path[i], quarantine_path(i))
               /\ pc' = [pc EXCEPT ![i] = "log_error"]
               /\ NoFault
               /\ UNCHANGED <<exc, current>>
            \/ /\ MayFault
               /\ Raised(i, "quarantine_move", 1)
               /\ Escapes(i, MoveFault)
               /\ UNCHANGED fs
    /\ UNCHANGED <<db, clock, file_path, agi_determined_type,
                   processing_modules, k, final_path>>
    /\ UNCHANGED frame_step

\* the payload of the error event, line 173
error_data(i) ==
    [correlation_id |-> i, error |-> exc[i], quarantined_path |-> quarantine_path(i)]

\* line 173, and the return of the coroutine
ProcessingError(i) ==
    /\ pc[i] = "log_error"
    /\ current = i
    /\ \/ /\ store_event("document_processing_error", error_data(i))
          /\ pc' = [pc EXCEPT ![i] = "quarantined"]
          /\ current' = NoTask
          /\ NoFault
          /\ UNCHANGED exc
       \/ /\ MayFault
          /\ Raised(i, "error_append", 1)
          /\ Escapes(i, StorageFault)
          /\ UNCHANGED <<db, clock>>
    /\ UNCHANGED <<fs, file_path, agi_determined_type, processing_modules, k,
                   final_path>>
    /\ UNCHANGED frame_step

---------------------------------------------------------------------------
(* get_document_status, main.py lines 230-258 *)

\* a status handler that also logs the query it serves
GetStatusLogging(c) ==
    /\ lifespan = "serving"
    /\ current = NoTask
    /\ store_event("status_query", [correlation_id |-> c])
    /\ response' = get_document_status(db', c)
    /\ current' = RequestTask
    /\ UNCHANGED <<lifespan, on_startup, fs, pc, upload, file_path,
                   agi_determined_type, processing_modules, k, exc,
                   final_path, nfaults, faultsite, injected, status_code, probe,
                   input_data, heap, locals, calls, ws>>

GetStatus(c) ==
    /\ lifespan = "serving"
    /\ current = NoTask
    /\ response' = get_document_status(db, c)
    /\ current' = RequestTask
    /\ UNCHANGED <<lifespan, on_startup, fs, db, clock, pc, upload,
                   file_path, agi_determined_type, processing_modules, k, exc,
                   final_path, nfaults, faultsite, injected, status_code, probe,
                   input_data, heap, locals, calls, ws>>

\* the JSONResponse is returned to the client; the handler has no await, so
\* nothing else ran on the loop in between
SendResponse ==
    /\ current = RequestTask
    /\ current' = NoTask
    /\ response' = NoResponse
    /\ UNCHANGED <<lifespan, on_startup, fs, db, clock, pc, upload,
                   file_path, agi_determined_type, processing_modules, k, exc,
                   final_path, nfaults, faultsite, injected, status_code, probe,
                   input_data, heap, locals, calls, ws>>

---------------------------------------------------------------------------

Next ==
    \/ Startup
    \/ \E i \in CorrelationIds, u \in Uploads : ingest_document(i, u)
    \/ \E i \in CorrelationIds : InvokeProcessor(i)
    \/ \E i \in CorrelationIds : IngestionStart(i)
    \/ \E i \in CorrelationIds : Classification(i)
    \/ \E i \in CorrelationIds : WorkflowAssembly(i)
    \/ \E i \in CorrelationIds : LoopHead(i)
    \/ \E i \in CorrelationIds : Resume(i)
    \/ \E i \in CorrelationIds : RiskCheck(i)
    \/ \E i \in CorrelationIds : ModuleExecution(i)
    \/ \E i \in CorrelationIds : MoveToFinal(i)
    \/ \E i \in CorrelationIds : ProcessingComplete(i)
    \/ \E i \in CorrelationIds : LearningCycle(i)
    \/ \E i \in CorrelationIds : Quarantine(i)
    \/ \E i \in CorrelationIds : ProcessingError(i)
    \/ \E c \in CorrelationIds \cup {UnknownId} : GetStatus(c)
    \/ SendResponse

Spec == Init /\ [][Next]_vars

\* The steps of run i that the event loop schedules
RunStep(i) ==
    \/ IngestionStart(i)
    \/ Classification(i)
    \/ WorkflowAssembly(i)
    \/ LoopHead(i)
    \/ Resume(i)
    \/ RiskCheck(i)
    \/ ModuleExecution(i)
    \/ MoveToFinal(i)
    \/ ProcessingComplete(i)
    \/ LearningCycle(i)
    \/ Quarantine(i)
    \/ ProcessingError(i)

\* The server completes its startup and its responses, and the event loop
\* runs every task that is ready again and again (its ready queue is first
\* in, first out); requests and direct calls of the processor are the
\* environment's.
FairSpec ==
    /\ Spec
    /\ WF_vars(Startup)
    /\ WF_vars(SendResponse)
    /\ \A i \in CorrelationIds : SF_vars(RunStep(i))

\* The same server and the same scheduling when no storage or file operation
\* fails: the only exception left is the TypeError of line 132.
CalmNext == Next /\ UNCHANGED injected

CalmStep(i) == RunStep(i) /\ UNCHANGED injected

CalmSpec ==
    /\ Init
    /\ [][CalmNext]_vars
    /\ WF_vars(Startup)
    /\ WF_vars(SendResponse)
    /\ \A i \in CorrelationIds : SF_vars(CalmStep(i))

---------------------------------------------------------------------------
(* agi_dispatcher.py and the chat endpoint, main.py lines 260-277 *)

\* the number of chat requests served in a behaviour
MaxChats == 1

\* chat_input.dict(); memory_context is written as it prints
ChatInputs ==
    {[user_message |-> "hello", memory_context |-> "{}"],
     [user_message |-> "status of my contract?", memory_context |-> "{'topic': 'contract'}"]}

\* payload.get(key, default)
PayloadGet(payload, key, default) ==
    IF key \in DOMAIN payload THEN payload[key] ELSE default

\* a dispatcher that knows no task type
dispatch_unrouted(task_type, payload) ==
    <<"AGI: Unable to find direct module for '", task_type,
      "'. Initiating re-theorization process for this task.">>

\* agi_dispatcher.py lines 6-63: the formatted string, as its pieces
dispatch_to_capability_core(task_type, payload) ==
    CASE task_type = "code_analysis" ->
             <<"AGI Codex Core: Analyzing code snippet. Optimal solution theorized.">>
      [] task_type = "vision" ->
             <<"AGI Vision Core: Analyzing visual data from ",
               PayloadGet(payload, "image_path", "no image path"),
               ". Insights generated.">>
      [] task_type = "chat_reasoning" ->
             <<"AGI EchoNexus Core: Received '",
               PayloadGet(payload, "user_message", "no message"),
               "' (Context: ",
               PayloadGet(payload, "memory_context", "{}"),
               "). Processing for optimal response.">>
      [] task_type = "document_processing_subtask" ->
             <<"AGI Document Subtask Processor: Executing '",
               PayloadGet(payload, "subtask_name", "generic_subtask"),
               "' for document ",
               PayloadGet(payload, "correlation_id", "N/A"),
               ".">>
      [] OTHER ->
             <<"AGI: Unable to find direct module for '", task_type,
               "'. Initiating re-theorization process for this task.">>

\* chat_with_agi, lines 261-277: no await, so the handler runs in one piece.
\* Both events are stored and {"response": response} is returned, or the
\* first store_event raises and nothing is stored, or the second raises and
\* the user's message alone is stored; a call that raised returns no value.
chat_with_agi(chat_input) ==
    /\ lifespan = "serving"
    /\ current = NoTask
    /\ Cardinality({n \in DOMAIN db : db[n].event_type = "user_chat_message"}) < MaxChats
    /\ LET received ==
               event_record("user_chat_message",
                            [message |-> chat_input.user_message,
                             context |-> chat_input.memory_context])
           reply == dispatch_to_capability_core("chat_reasoning", chat_input)
           answered ==
               [timestamp |-> clock + 1, event_type |-> "agi_chat_response",
                data |-> [response |-> reply]]
       IN  \/ /\ db' = db \o <<received, answered>>
              /\ clock' = clock + 2
              /\ response' = [response |-> reply]
              /\ current' = RequestTask
              /\ UNCHANGED injected
           \/ /\ MayFault
              /\ injected' = injected + 1
              /\ UNCHANGED <<db, clock, response, current>>
           \/ /\ MayFault
              /\ injected' = injected + 1
              /\ db' = Append(db, received)
              /\ clock' = clock + 1
              /\ UNCHANGED <<response, current>>
    /\ UNCHANGED <<lifespan, on_startup, fs, pc, upload, file_path,
                   agi_determined_type, processing_modules, k, exc,
                   final_path, nfaults, faultsite, status_code, probe,
                   input_data, heap, locals, calls, ws>>

\* The service with one document and the chat endpoint
ServiceNext ==
    \/ Startup
    \/ \E u \in Uploads : ingest_document(IdOrder[1], u)
    \/ InvokeProcessor(IdOrder[1])
    \/ RunStep(IdOrder[1])
    \/ \E c \in {IdOrder[1], UnknownId} : GetStatus(c)
    \/ SendResponse
    \/ \E chat_input \in ChatInputs : chat_with_agi(chat_input)

ServiceSpec == Init /\ [][ServiceNext]_vars

---------------------------------------------------------------------------
(* websocket_endpoint, main.py lines 279-305 *)

\* the number of messages the client sends over the connection
MaxMessages == 1

frame_ws ==
    <<lifespan, on_startup, fs, current, pc, upload, file_path,
      agi_determined_type, processing_modules, k, exc, final_path, nfaults,
      faultsite, response, status_code, probe, input_data, heap, locals, calls>>

\* a store_event of the try block raised: `except Exception as e` stores
\* websocket_error and the endpoint returns; or that store raises as well
WsExcept ==
    /\ MayFault
    /\ ws' = [state |-> "closed"]
    /\ \/ /\ store_event("websocket_error", [error |-> StorageFault])
          /\ injected' = injected + 1
       \/ /\ injected + 1 < MaxFaults
          /\ injected' = injected + 2
          /\ UNCHANGED <<db, clock>>

\* line 284: await websocket.accept()
WsAccept ==
    /\ lifespan = "serving"
    /\ current = NoTask
    /\ ws = NoSocket
    /\ ws' = [state |-> "receiving"]
    /\ UNCHANGED <<frame_ws, db, clock, injected>>

\* lines 288-296: receive_text returns a message, the event is stored, the
\* dispatcher answers, and the endpoint awaits send_text
WsReceive(data) ==
    /\ current = NoTask
    /\ ws.state = "receiving"
    /\ Cardinality({n \in DOMAIN db :
                       db[n].event_type = "websocket_message_received"}) < MaxMessages
    /\ \/ /\ store_event("websocket_message_received", [message |-> data])
          /\ ws' = [state |-> "sending",
                    agi_response |->
                        dispatch_to_capability_core(
                            "chat_reasoning",
                            [user_message |-> data,
                             context |-> [channel |-> "websocket"]])]
          /\ UNCHANGED injected
       \/ WsExcept
    /\ UNCHANGED frame_ws

\* line 298: send_text returned, the sent event is stored, and the loop
\* awaits the next message
WsSent ==
    /\ current = NoTask
    /\ ws.state = "sending"
    /\ \/ /\ store_event("websocket_message_sent", [response |-> ws.agi_response])
          /\ ws' = [state |-> "receiving"]
          /\ UNCHANGED injected
       \/ WsExcept
    /\ UNCHANGED frame_ws

\* lines 300-302: the client went away while the endpoint awaited it
WsDisconnect ==
    /\ current = NoTask
    /\ ws.state \in {"receiving", "sending"}
    /\ ws' = [state |-> "closed"]
    /\ \/ /\ store_event("websocket_disconnect", << >>)
          /\ UNCHANGED injected
       \/ /\ MayFault
          /\ injected' = injected + 1
          /\ UNCHANGED <<db, clock>>
    /\ UNCHANGED frame_ws

\* The chat channels of the service: the chat endpoint and the WebSocket
ChannelNext ==
    \/ Startup
    \/ \E chat_input \in ChatInputs : chat_with_agi(chat_input)
    \/ SendResponse
    \/ WsAccept
    \/ \E chat_input \in ChatInputs : WsReceive(chat_input.user_message)
    \/ WsSent
    \/ WsDisconnect

ChannelSpec == Init /\ [][ChannelNext]_vars

---------------------------------------------------------------------------
(* The classifiers on file names and tags drawn from bounded sets *)

\* the longest file name, in tokens, and the largest number of tags
MaxNameLen == 2
MaxTags == 1

SeqsUpTo(S, n) == UNION {[1..m -> S] : m \in 0..n}

NameTokens ==
    {"contract", "Contract", "agreement", "invoice", "INVOICE", "research",
     "paper", "legal", "billing", "notes.txt"}

TagTokens == {"legal", "Legal", "billing", "urgent"}

\* one classification each: the path is the staged path ingest_document
\* builds for the file name
ClassifierProbes ==
    {[op |-> "classify",
      file_path |-> join(DYNAMIC_DIRS["temp_staging"],
                         <<IdOrder[1]>> \o sanitize_filename(name)),
      tags |-> tags,
      agi_determined_type |-> None,
      creo_core_type |-> None] :
        name \in SeqsUpTo(NameTokens, MaxNameLen),
        tags \in SeqsUpTo(TagTokens, MaxTags)}

frame_probe ==
    <<lifespan, on_startup, fs, db, clock, current, pc, upload, file_path,
      agi_determined_type, processing_modules, k, exc, final_path, nfaults,
      faultsite, injected, response, status_code, input_data, heap, locals,
      calls, ws>>

ClassifierInit ==
    /\ InitServer
    /\ heap = <<>>
    /\ db = <<>>
    /\ probe \in ClassifierProbes

\* main.py lines 89-97 on the probe's path and tags
ProbeClassify ==
    /\ probe.op = "classify"
    /\ probe.agi_determined_type = None
    /\ probe' = [probe EXCEPT !.agi_determined_type =
                                 Classify(probe.file_path, probe.tags)]
    /\ UNCHANGED frame_probe

\* fastapi_main.py lines 122-126 on the probe's path and tags
ProbeClassifyCreoCore ==
    /\ probe.op = "classify"
    /\ probe.creo_core_type = None
    /\ probe' = [probe EXCEPT !.creo_core_type =
                                 ClassifyCreoCore(probe.file_path, probe.tags)]
    /\ UNCHANGED frame_probe

ClassifierNext == ProbeClassify \/ ProbeClassifyCreoCore

ClassifierSpec == ClassifierInit /\ [][ClassifierNext]_vars

---------------------------------------------------------------------------
(* get_recent_events on logs and arguments drawn from bounded sets *)

\* the longest log, and the latest timestamp in it
MaxLog == 3
MaxStamp == 2

\* Records as store_event writes them: a pipeline event of each id and a
\* chat event, which has no correlation id.  datetime.now() is the wall
\* clock, so the timestamps of a log need not rise with its order.
ProbeEvents ==
    {[timestamp |-> t, event_type |-> "module_execution",
      data |-> [correlation_id |-> c, module |-> "general_content_indexing",
                status |-> "completed"]] :
        t \in 1..MaxStamp, c \in CorrelationIds}
    \cup
    {[timestamp |-> t, event_type |-> "user_chat_message",
      data |-> [message |-> "hello", context |-> <<>>]] : t \in 1..MaxStamp}

\* limit is a count; the default, and every value up to past the log's length
Limits == 0..(MaxLog + 1) \cup {DefaultLimit}

RecentProbes ==
    {[op |-> "get_recent_events", limit |-> limit, correlation_id |-> c,
      returned |-> FALSE, events |-> <<>>] :
        limit \in Limits, c \in CorrelationIds \cup {None}}

MemoryInit ==
    /\ InitServer
    /\ heap = <<>>
    /\ db \in SeqsUpTo(ProbeEvents, MaxLog)
    /\ probe \in RecentProbes

\* agi_memory.py lines 25-39 on the probe's arguments
ProbeGetRecentEvents ==
    /\ probe.op = "get_recent_events"
    /\ ~probe.returned
    /\ probe' = [probe EXCEPT
                    !.events = get_recent_events(db, probe.limit,
                                                 probe.correlation_id),
                    !.returned = TRUE]
    /\ UNCHANGED frame_probe

MemoryNext == ProbeGetRecentEvents

MemorySpec == MemoryInit /\ [][MemoryNext]_vars

---------------------------------------------------------------------------
(* The creative stages, on dicts held in a heap.  A stage takes the heap   *)
(* and its argument and yields the heap after the call and the reference   *)
(* it returns.  A formatted string is the sequence of its pieces, "::"     *)
(* among them.  A value that may be None is a sequence of at most one      *)
(* value: Null is None, <<v>> is v.                                        *)

Null == << >>

EmptyDict == << >>

\* d[key] = v on a dict
Put(d, key, v) == [x \in DOMAIN d \cup {key} |-> IF x = key THEN v ELSE d[x]]

\* a new dict on the heap
Alloc(h, d) == [heap |-> Append(h, d), ref |-> Len(h) + 1]

\* str.upper() and str.lower() on the pieces used
str_upper(piece) ==
    CASE piece = "symbolic" -> "SYMBOLIC"
      [] piece = "emotive" -> "EMOTIVE"
      [] piece = "geometric" -> "GEOMETRIC"
      [] piece = "archetypal" -> "ARCHETYPAL"
      [] piece = "narrative" -> "NARRATIVE"
      [] piece = "logical" -> "LOGICAL"
      [] piece = "stylistic" -> "STYLISTIC"
      [] piece = "modal" -> "MODAL"
      [] piece = "conceptual" -> "CONCEPTUAL"
      [] piece = "syntactic" -> "SYNTACTIC"
      [] piece = "Transformed" -> "TRANSFORMED"
      [] piece = "_seed" -> "_SEED"
      [] OTHER -> piece

str_lower(piece) ==
    CASE piece = "SYMBOLIC" -> "symbolic"
      [] piece = "EMOTIVE" -> "emotive"
      [] piece = "GEOMETRIC" -> "geometric"
      [] piece = "ARCHETYPAL" -> "archetypal"
      [] piece = "NARRATIVE" -> "narrative"
      [] piece = "LOGICAL" -> "logical"
      [] piece = "STYLISTIC" -> "stylistic"
      [] piece = "MODAL" -> "modal"
      [] piece = "CONCEPTUAL" -> "conceptual"
      [] piece = "SYNTACTIC" -> "syntactic"
      [] piece = "Transformed" -> "transformed"
      [] piece = "_SEED" -> "_seed"
      [] OTHER -> piece

\* s.split('::')[0]
SplitHead(s) ==
    IF \E n \in 1..Len(s) : s[n] = "::"
    THEN SubSeq(s, 1, (CHOOSE n \in 1..Len(s) :
                           s[n] = "::" /\ \A m \in 1..(n - 1) : s[m] # "::") - 1)
    ELSE s

TypeErrorNone == "TypeError: 'NoneType' object is not subscriptable"

AttributeErrorNone == "AttributeError: 'NoneType' object has no attribute 'get'"

\* PerceptionInterface.ingest raises: input_data['text_input'][:50] on None
ingest_raises(data) ==
    IF "text_input" \in DOMAIN data /\ data.text_input = Null
    THEN TypeErrorNone ELSE NoExc

\* PerceptionInterface.ingest, perception_interface.py lines 12-36
ingest(h, data) ==
    LET text == IF "text_input" \in DOMAIN data
                THEN << <<"Text: ">> \o SliceTo(data.text_input[1], 50) \o <<"...">> >>
                ELSE <<>>
        image == IF "image_data" \in DOMAIN data
                 THEN << <<"Image data detected.">> >> ELSE <<>>
        audio == IF "audio_data" \in DOMAIN data
                 THEN << <<"Audio data detected.">> >> ELSE <<>>
        symbolic == IF "symbolic_input" \in DOMAIN data
                    THEN << <<"Symbolic: ", data.symbolic_input>> >> ELSE <<>>
        processed_stimuli ==
            [raw_input_hash |-> <<"hash", data>>,
             perceived_elements |-> text \o image \o audio \o symbolic,
             inferred_context |-> PayloadGet(data, "context", <<EmptyDict>>)]
    IN  Alloc(h, processed_stimuli)

\* SeedGenerator.seed_types, seed_generator.py line 11
seed_types ==
    {"symbolic", "emotive", "geometric", "archetypal", "narrative", "logical"}

\* random.randint(10000, 99999), as the digits printed: the two ends
SeedNumbers == {"10000", "99999"}

\* generate_seed raises: context.get("inferred_context", {}) is None
generate_seed_raises(h, context) ==
    IF PayloadGet(h[context], "inferred_context", <<EmptyDict>>) = Null
    THEN AttributeErrorNone ELSE NoExc

\* SeedGenerator.generate_seed, seed_generator.py lines 13-35, with the two
\* random draws as arguments
generate_seed(h, context, seed_type, number) ==
    LET given == PayloadGet(h[context], "inferred_context", <<EmptyDict>>)[1]
        seed_value == <<str_upper(seed_type), "_SEED", "::", number>>
        inferred_context ==
            [source_stimuli |-> PayloadGet(h[context], "perceived_elements", <<>>),
             mood_hint |-> PayloadGet(given, "mood", "neutral"),
             theme_hint |-> PayloadGet(given, "theme", "abstract")]
    IN  Alloc(h, [type |-> seed_type, value |-> seed_value,
                  inferred_context |-> inferred_context, iteration_count |-> 0])

\* PatternMapper.map_patterns, pattern_mapper.py lines 13-33
map_patterns(h, data) ==
    LET mapped_data == h[data]
        head == SplitHead(PayloadGet(h[data], "value", <<>>))
        identified_patterns ==
            << <<"Pattern::">> \o [n \in 1..Len(head) |-> str_lower(head[n])]
                   \o <<"_resonance">>,
               <<"Pattern::context_alignment_",
                 PayloadGet(PayloadGet(h[data], "inferred_context", EmptyDict),
                            "mood_hint", "unknown")>> >>
    IN  Alloc(h, Put(Put(mapped_data, "identified_patterns", identified_patterns),
                     "potential_ruleset_modifications", <<>>))

\* TransformationEngine.transformation_modes, transformation_engine.py line 10
transformation_modes == <<"stylistic", "modal", "conceptual", "syntactic">>

\* a transform that leaves iteration_count as it was
transformed_uncounted(d) ==
    LET transformation_mode ==
            transformation_modes[(PayloadGet(d, "iteration_count", 0)
                                     % Len(transformation_modes)) + 1]
    IN  Put(Put(d, "value",
                <<"[", str_upper(transformation_mode), "::", "Transformed", "::">>
                    \o PayloadGet(d, "value", <<"N/A">>) \o <<"]">>),
            "transformation_applied", transformation_mode)

\* the dict transform builds from its argument's contents
transformed(d) ==
    LET transformation_mode ==
            transformation_modes[(PayloadGet(d, "iteration_count", 0)
                                     % Len(transformation_modes)) + 1]
        current_value == PayloadGet(d, "value", <<"N/A">>)
    IN  Put(Put(Put(d, "value",
                    <<"[", str_upper(transformation_mode), "::", "Transformed", "::">>
                        \o current_value \o <<"]">>),
                "transformation_applied", transformation_mode),
            "iteration_count", PayloadGet(d, "iteration_count", 0) + 1)

\* a transform that works on its argument instead of on a copy of it
transform_in_place(h, data) ==
    [heap |-> [h EXCEPT ![data] = transformed(h[data])], ref |-> data]

\* TransformationEngine.transform, transformation_engine.py lines 12-30:
\* data.copy(), then the assignments to the copy
transform(h, data) == Alloc(h, transformed(h[data]))

\* a test for "SYMBOLIC" anywhere in the value
MentionsSymbolic(value) ==
    \E n \in 1..Len(value) : str_upper(value[n]) = "SYMBOLIC"

\* `"TRANSFORMED::SYMBOLIC" in str(value).upper()`
MentionsTransformedSymbolic(value) ==
    \E n \in 1..(Len(value) - 2) :
        /\ str_upper(value[n]) = "TRANSFORMED"
        /\ value[n + 1] = "::"
        /\ str_upper(value[n + 2]) = "SYMBOLIC"

\* ExecutionAdapter.render_output, execution_adapter.py lines 12-36
render_output(h, creative_result) ==
    LET rendered_output == h[creative_result]
        value == PayloadGet(h[creative_result], "value", <<>>)
        output_format ==
            IF MentionsTransformedSymbolic(value)
            THEN "symbolic_representation" ELSE "text_summary"
    IN  Alloc(h, Put(Put(rendered_output, "final_output_format", output_format),
                     "rendered_representation",
                     <<"Final Rendered Output (", output_format, "): ">>
                         \o PayloadGet(h[creative_result], "value", <<"N/A">>)))

---------------------------------------------------------------------------
(* fastapi_main.py: the creative endpoints and EchoConductor's cycle *)

\* RecursiveAmplifier(depth=4), fastapi_main.py line 74
depth == 4

\* The bodies CreativeInput accepts, as input_data.dict() gives them: every
\* field is a key; a field that is null or absent is None, except context,
\* which is {} when absent and None when null.
CreativeInputs ==
    [text_input : {Null, << <<"a", "poem">> >>},
     image_data : {Null, <<"png">>},
     audio_data : {Null, <<"wav">>},
     symbolic_input : {Null, <<[glyph |-> "omega"]>>},
     context : {Null, <<EmptyDict>>, <<[mood |-> "calm"]>>}]

frame_cycle ==
    <<lifespan, on_startup, fs, upload, file_path, agi_determined_type,
      processing_modules, k, final_path, response, probe, ws>>

\* a stage call of the cycle, as the conductor makes it
Called(i, stage, arg, result) ==
    calls' = [calls EXCEPT ![i] =
                 Append(@, [stage |-> stage, arg |-> arg, result |-> result])]

\* initiate_creative_cycle, lines 272-303: the initiation event is stored and
\* run_creative_task is added to the background tasks; or store_event raises
\* and the request fails with nothing scheduled.
initiate_creative_cycle(i, body) ==
    /\ lifespan = "serving"
    /\ current = NoTask
    /\ pc[i] = "none"
    /\ i = uuid4
    /\ input_data' = [input_data EXCEPT ![i] = body]
    /\ \/ /\ store_event("creative_cycle_initiation",
                         [correlation_id |-> i, input_data |-> body])
          /\ pc' = [pc EXCEPT ![i] = "cycle_scheduled"]
          /\ status_code' = [status_code EXCEPT ![i] = "200"]
          /\ NoFault
       \/ /\ MayFault
          /\ Raised(i, "initiation", 1)
          /\ pc' = [pc EXCEPT ![i] = "cycle_failed"]
          /\ status_code' = [status_code EXCEPT ![i] = "500"]
          /\ UNCHANGED <<db, clock>>
    /\ UNCHANGED <<frame_cycle, current, exc, heap, locals, calls>>

\* the `except Exception as e` of run_creative_task, line 292
CycleExcept(i, e, site, inject) ==
    /\ pc' = [pc EXCEPT ![i] = "cycle_except"]
    /\ exc' = [exc EXCEPT ![i] = e]
    /\ Raised(i, site, inject)

\* run_creative_task starts after the response was sent; line 42 of
\* conductor.py: stimuli = perception_interface.ingest(input_data)
Perceive(i) ==
    /\ lifespan = "serving"
    /\ current = NoTask
    /\ pc[i] = "cycle_scheduled"
    /\ current' = i
    /\ IF ingest_raises(input_data[i]) # NoExc
       THEN /\ CycleExcept(i, ingest_raises(input_data[i]), "Perceive", 0)
            /\ Called(i, "Perceive", input_data[i], Null)
            /\ UNCHANGED <<heap, locals>>
       ELSE LET made == ingest(heap, input_data[i])
            IN  /\ heap' = made.heap
                /\ locals' = [locals EXCEPT ![i] = Put(@, "stimuli", made.ref)]
                /\ Called(i, "Perceive", input_data[i], <<made.ref>>)
                /\ pc' = [pc EXCEPT ![i] = "generate_seed"]
                /\ NoFault
                /\ UNCHANGED exc
    /\ UNCHANGED <<frame_cycle, db, clock, status_code, input_data>>

\* line 46: seed = seed_generator.generate_seed(stimuli)
GenerateSeed(i) ==
    /\ current = i
    /\ pc[i] = "generate_seed"
    /\ IF generate_seed_raises(heap, locals[i].stimuli) # NoExc
       THEN /\ CycleExcept(i, generate_seed_raises(heap, locals[i].stimuli),
                           "GenerateSeed", 0)
            /\ Called(i, "GenerateSeed", <<locals[i].stimuli>>, Null)
            /\ UNCHANGED <<heap, locals>>
       ELSE \E seed_type \in seed_types, number \in SeedNumbers :
                LET made == generate_seed(heap, locals[i].stimuli, seed_type, number)
                IN  /\ heap' = made.heap
                    /\ locals' = [locals EXCEPT ![i] = Put(@, "seed", made.ref)]
                    /\ Called(i, "GenerateSeed", <<locals[i].stimuli>>, <<made.ref>>)
                    /\ pc' = [pc EXCEPT ![i] = "map_patterns"]
                    /\ NoFault
                    /\ UNCHANGED exc
    /\ UNCHANGED <<frame_cycle, db, clock, current, status_code, input_data>>

\* line 50: mapped_seed = pattern_mapper.map_patterns(seed)
MapPatterns(i) ==
    /\ current = i
    /\ pc[i] = "map_patterns"
    /\ LET made == map_patterns(heap, locals[i].seed)
       IN  /\ heap' = made.heap
           /\ locals' = [locals EXCEPT ![i] = Put(@, "mapped_seed", made.ref)]
           /\ Called(i, "MapPatterns", <<locals[i].seed>>, <<made.ref>>)
    /\ pc' = [pc EXCEPT ![i] = "amplify"]
    /\ NoFault
    /\ UNCHANGED <<frame_cycle, db, clock, current, status_code, input_data, exc>>

\* line 55, the call of recursive_amplifier.amplify(mapped_seed, ...):
\* current_creative_construct = seed, and the loop over range(depth) begins
Amplify(i) ==
    /\ current = i
    /\ pc[i] = "amplify"
    /\ locals' = [locals EXCEPT ![i] =
                     Put(Put(@, "current_creative_construct", locals[i].mapped_seed),
                         "i", 0)]
    /\ Called(i, "Amplify", <<locals[i].mapped_seed>>, Null)
    /\ pc' = [pc EXCEPT ![i] = "transform"]
    /\ NoFault
    /\ UNCHANGED <<frame_cycle, db, clock, current, status_code, input_data, exc,
                   heap>>

\* a loop that ends after its first turn
LoopExhaustedEarly(i) == locals[i].i >= 1

\* `for i in range(self.depth)` has no further value
LoopExhausted(i) == locals[i].i >= depth

\* recursive_amplifier.py lines 20-22: one turn of the loop
Transform(i) ==
    /\ current = i
    /\ pc[i] = "transform"
    /\ ~LoopExhausted(i)
    /\ LET made == transform(heap, locals[i].current_creative_construct)
       IN  /\ heap' = made.heap
           /\ locals' = [locals EXCEPT ![i] =
                            Put(Put(@, "current_creative_construct", made.ref),
                                "i", locals[i].i + 1)]
           /\ Called(i, "Transform", <<locals[i].current_creative_construct>>,
                     <<made.ref>>)
    /\ NoFault
    /\ UNCHANGED <<frame_cycle, db, clock, current, status_code, input_data, exc,
                   pc>>

\* recursive_amplifier.py line 26 and conductor.py line 55: range(depth) is
\* exhausted, amplify returns and amplified_result is bound
AmplifyReturn(i) ==
    /\ current = i
    /\ pc[i] = "transform"
    /\ LoopExhausted(i)
    /\ locals' = [locals EXCEPT ![i] =
                     Put(@, "amplified_result", locals[i].current_creative_construct)]
    /\ calls' = [calls EXCEPT ![i] =
                    [n \in DOMAIN @ |->
                        IF @[n].stage = "Amplify"
                        THEN [@[n] EXCEPT !.result =
                                  <<locals[i].current_creative_construct>>]
                        ELSE @[n]]]
    /\ pc' = [pc EXCEPT ![i] = "render_output"]
    /\ NoFault
    /\ UNCHANGED <<frame_cycle, db, clock, current, status_code, input_data, exc,
                   heap>>

\* lines 59-63: final_creative_output = execution_adapter.render_output(...)
Render(i) ==
    /\ current = i
    /\ pc[i] = "render_output"
    /\ LET made == render_output(heap, locals[i].amplified_result)
       IN  /\ heap' = made.heap
           /\ locals' = [locals EXCEPT ![i] =
                            Put(@, "final_creative_output", made.ref)]
           /\ Called(i, "Render", <<locals[i].amplified_result>>, <<made.ref>>)
    /\ pc' = [pc EXCEPT ![i] = "cycle_completion"]
    /\ NoFault
    /\ UNCHANGED <<frame_cycle, db, clock, current, status_code, input_data, exc>>

\* fastapi_main.py line 290: the completion event with the cycle's result
CycleCompletion(i) ==
    /\ current = i
    /\ pc[i] = "cycle_completion"
    /\ \/ /\ store_event("creative_cycle_completion",
                         [correlation_id |-> i,
                          result |-> heap[locals[i].final_creative_output]])
          /\ pc' = [pc EXCEPT ![i] = "cycle_done"]
          /\ current' = NoTask
          /\ NoFault
          /\ UNCHANGED exc
       \/ /\ MayFault
          /\ CycleExcept(i, StorageFault, "completion", 1)
          /\ UNCHANGED <<db, clock, current>>
    /\ UNCHANGED <<frame_cycle, status_code, input_data, heap, locals, calls>>

\* an except block that only prints
CycleErrorSilent(i) ==
    /\ current = i
    /\ pc[i] = "cycle_except"
    /\ current' = NoTask
    /\ pc' = [pc EXCEPT ![i] = "cycle_done"]
    /\ NoFault
    /\ UNCHANGED <<frame_cycle, db, clock, exc, status_code, input_data, heap,
                   locals, calls>>

\* line 294: the error event; a store_event that raises here leaves the task
CycleError(i) ==
    /\ current = i
    /\ pc[i] = "cycle_except"
    /\ current' = NoTask
    /\ \/ /\ store_event("creative_cycle_error",
                         [correlation_id |-> i, error |-> exc[i]])
          /\ pc' = [pc EXCEPT ![i] = "cycle_done"]
          /\ NoFault
          /\ UNCHANGED exc
       \/ /\ MayFault
          /\ Raised(i, "error_append", 1)
          /\ pc' = [pc EXCEPT ![i] = "cycle_crashed"]
          /\ exc' = [exc EXCEPT ![i] = StorageFault]
          /\ UNCHANGED <<db, clock>>
    /\ UNCHANGED <<frame_cycle, status_code, input_data, heap, locals, calls>>

\* one step of run_creative_task
CycleStep(i) ==
    \/ Perceive(i)
    \/ GenerateSeed(i)
    \/ MapPatterns(i)
    \/ Amplify(i)
    \/ Transform(i)
    \/ AmplifyReturn(i)
    \/ Render(i)
    \/ CycleCompletion(i)
    \/ CycleError(i)

\* a get_creative_status that looks for an error event first
get_creative_status_error_first(table, correlation_id) ==
    LET events == get_recent_events(table, DefaultLimit, correlation_id)
        completions == SelectSeq(events, LAMBDA e :
                                     e.event_type = "creative_cycle_completion")
        errors == SelectSeq(events, LAMBDA e :
                                e.event_type = "creative_cycle_error")
    IN  [correlation_id |-> correlation_id,
         status |-> IF errors # <<>> THEN "Creative cycle encountered an error."
                    ELSE IF completions # <<>> THEN "Creative cycle completed."
                    ELSE "Creative cycle in progress (AGI actively theorizing).",
         last_agi_creative_action |->
             IF events # <<>> THEN events[Len(events)].event_type ELSE "None",
         current_creative_value |-> Null,
         final_creative_output |->
             IF errors = <<>> /\ completions # <<>>
             THEN <<completions[1].data.result.rendered_representation>>
             ELSE Null,
         agi_creative_event_history |-> events]

\* get_creative_status, fastapi_main.py lines 305-334
get_creative_status(table, correlation_id) ==
    LET events == get_recent_events(table, DefaultLimit, correlation_id)
        completions == SelectSeq(events, LAMBDA e :
                                     e.event_type = "creative_cycle_completion")
        errors == SelectSeq(events, LAMBDA e :
                                e.event_type = "creative_cycle_error")
        status_summary ==
            IF completions # <<>> THEN "Creative cycle completed."
            ELSE IF errors # <<>> THEN "Creative cycle encountered an error."
            ELSE "Creative cycle in progress (AGI actively theorizing)."
        result_of(e) == PayloadGet(e.data, "result", EmptyDict)
    IN  [correlation_id |-> correlation_id,
         status |-> status_summary,
         last_agi_creative_action |->
             IF events # <<>> THEN events[Len(events)].event_type ELSE "None",
         current_creative_value |->
             IF events # <<>> /\ "value" \in DOMAIN result_of(events[Len(events)])
             THEN <<result_of(events[Len(events)]).value>> ELSE Null,
         final_creative_output |->
             IF completions # <<>>
                /\ "rendered_representation" \in DOMAIN result_of(completions[1])
             THEN <<result_of(completions[1]).rendered_representation>> ELSE Null,
         agi_creative_event_history |-> events]

GetCreativeStatus(c) ==
    /\ lifespan = "serving"
    /\ current = NoTask
    /\ response' = get_creative_status(db, c)
    /\ current' = RequestTask
    /\ UNCHANGED <<lifespan, on_startup, fs, db, clock, pc, upload, file_path,
                   agi_determined_type, processing_modules, k, exc, final_path,
                   nfaults, faultsite, injected, status_code, probe, input_data,
                   heap, locals, calls, ws>>

\* The service with one creative cycle and its status endpoint
CreativeNext ==
    \/ Startup
    \/ \E body \in CreativeInputs : initiate_creative_cycle(IdOrder[1], body)
    \/ CycleStep(IdOrder[1])
    \/ \E c \in {IdOrder[1], UnknownId} : GetCreativeStatus(c)
    \/ SendResponse

CreativeSpec == Init /\ [][CreativeNext]_vars

---------------------------------------------------------------------------
(* The creative stages on constructs drawn from bounded sets *)

\* the largest depth a RecursiveAmplifier is built with
MaxDepth == 5

\* the largest iteration_count a construct starts with
MaxCount == 4

\* RecursiveAmplifier.amplify of an amplifier built with depth d,
\* recursive_amplifier.py lines 13-26
RECURSIVE amplify(_, _, _)
amplify(h, seed, d) ==
    IF d <= 0
    THEN [heap |-> h, ref |-> seed]
    ELSE LET turn == transform(h, seed)
         IN  amplify(turn.heap, turn.ref, d - 1)

\* constructs as generate_seed makes them, with the iteration_count given
Constructs ==
    {[type |-> seed_type,
      value |-> <<str_upper(seed_type), "_SEED", "::", "10000">>,
      inferred_context |-> [source_stimuli |-> <<>>, mood_hint |-> "neutral",
                            theme_hint |-> "abstract"],
      iteration_count |-> count] :
        seed_type \in seed_types, count \in 0..MaxCount}

\* one call of a stage: its argument is heap cell 1, `before` is the
\* argument's contents when the call was made
StageProbes ==
    {[op |-> "amplify", depth |-> d, arg |-> 1, before |-> c, returned |-> Null] :
        d \in 0..MaxDepth, c \in Constructs}
    \cup {[op |-> "run_creativity_cycle", depth |-> d, arg |-> 1, before |-> c,
            returned |-> Null] :
              d \in 0..MaxDepth, c \in Constructs}
    \cup {[op |-> o, depth |-> 0, arg |-> 1, before |-> c, returned |-> Null] :
              o \in {"transform", "map_patterns", "render_output"},
              c \in Constructs}

frame_stage ==
    <<lifespan, on_startup, fs, db, clock, current, pc, upload, file_path,
      agi_determined_type, processing_modules, k, exc, final_path, nfaults,
      faultsite, injected, response, status_code, input_data, locals, calls, ws>>

StagesInit ==
    /\ InitServer
    /\ db = <<>>
    /\ probe \in StageProbes
    /\ heap = <<probe.before>>

\* the stage of the probe is called on its argument
ProbeStage(op, made) ==
    /\ probe.op = op
    /\ probe.returned = Null
    /\ heap' = made.heap
    /\ probe' = [probe EXCEPT !.returned = <<made.ref>>]
    /\ UNCHANGED frame_stage

ProbeAmplify == ProbeStage("amplify", amplify(heap, probe.arg, probe.depth))

ProbeTransform == ProbeStage("transform", transform(heap, probe.arg))

ProbeMapPatterns == ProbeStage("map_patterns", map_patterns(heap, probe.arg))

ProbeRenderOutput == ProbeStage("render_output", render_output(heap, probe.arg))

\* conductor.py lines 50-59 on a seed, the amplifier built with the probe's
\* depth: map_patterns, amplify, render_output
ProbeRunCreativityCycle ==
    LET mapped_seed == map_patterns(heap, probe.arg)
        amplified_result == amplify(mapped_seed.heap, mapped_seed.ref, probe.depth)
    IN  ProbeStage("run_creativity_cycle",
                   render_output(amplified_result.heap, amplified_result.ref))

StagesNext ==
    \/ ProbeRunCreativityCycle
    \/ ProbeAmplify
    \/ ProbeTransform
    \/ ProbeMapPatterns
    \/ ProbeRenderOutput

StagesSpec == StagesInit /\ [][StagesNext]_vars

---------------------------------------------------------------------------
(* Two documents with the same name and tags *)

\* Requests alike in file name and tags that differ in priority, in the
\* document_type hint and in custom_options, the other fields of
\* UploadMetadata (main.py lines 35-43)
TwinUploads ==
    {[filename |-> <<"random", "notes.txt">>, tags |-> <<"Legal">>,
      priority |-> <<5>>, document_type |-> None, custom_options |-> << >>],
     [filename |-> <<"random", "notes.txt">>, tags |-> <<"Legal">>,
      priority |-> <<1>>, document_type |-> "invoice",
      custom_options |-> [route |-> "invoices"]],
     [filename |-> <<"random", "notes.txt">>, tags |-> <<"Legal">>,
      priority |-> NoPriority, document_type |-> "research_paper",
      custom_options |-> << >>]}

TwinNext ==
    \/ Startup
    \/ \E i \in CorrelationIds, u \in TwinUploads : ingest_document(i, u)
    \/ \E i \in CorrelationIds : InvokeProcessor(i)
    \/ \E i \in CorrelationIds : IngestionStart(i)
    \/ \E i \in CorrelationIds : Classification(i)
    \/ \E i \in CorrelationIds : WorkflowAssembly(i)
    \/ \E i \in CorrelationIds : LoopHead(i)
    \/ \E i \in CorrelationIds : Resume(i)
    \/ \E i \in CorrelationIds : RiskCheck(i)
    \/ \E i \in CorrelationIds : ModuleExecution(i)
    \/ \E i \in CorrelationIds : MoveToFinal(i)
    \/ \E i \in CorrelationIds : ProcessingComplete(i)
    \/ \E i \in CorrelationIds : LearningCycle(i)
    \/ \E i \in CorrelationIds : Quarantine(i)
    \/ \E i \in CorrelationIds : ProcessingError(i)

TwinSpec == Init /\ [][TwinNext]_vars

---------------------------------------------------------------------------
(* get_creative_status on logs drawn from a bounded set *)

\* what a creative cycle can have stored, without timestamp: two
\* completions that differ in their result, an error, an initiation, and a
\* completion of another id
StatusEventKinds ==
    {[event_type |-> "creative_cycle_initiation",
      data |-> [correlation_id |-> IdOrder[1], input_data |-> NoInput]],
     [event_type |-> "creative_cycle_error",
      data |-> [correlation_id |-> IdOrder[1], error |-> TypeErrorNone]],
     [event_type |-> "creative_cycle_completion",
      data |-> [correlation_id |-> IdOrder[2],
                result |-> [value |-> <<"LOGICAL", "_SEED">>,
                            rendered_representation |-> <<"other">>]]]}
    \cup {[event_type |-> "creative_cycle_completion",
           data |-> [correlation_id |-> IdOrder[1],
                     result |-> [value |-> <<seed, "_SEED">>,
                                 rendered_representation |->
                                     <<"Final Rendered Output (", seed>>]]] :
              seed \in {"EMOTIVE", "SYMBOLIC"}}

\* a log of these, stamped in the order stored
StatusLogs ==
    {[n \in DOMAIN kinds |->
         [timestamp |-> n, event_type |-> kinds[n].event_type,
          data |-> kinds[n].data]] :
        kinds \in SeqsUpTo(StatusEventKinds, MaxLog)}

StatusInit ==
    /\ InitServer
    /\ heap = <<>>
    /\ db \in StatusLogs
    /\ probe = NoProbe

StatusNext ==
    \/ Startup
    \/ \E c \in {IdOrder[1], UnknownId} : GetCreativeStatus(c)
    \/ SendResponse

StatusSpec == StatusInit /\ [][StatusNext]_vars

---------------------------------------------------------------------------
(* The admin lockdown, 7/23/25_Logan_L_directive.py *)

\* A source name is a sequence of characters.  The letters of the model
\* and their capitals:
UpperOf ==
    [g |-> "G", i |-> "I", t |-> "T", h |-> "H", u |-> "U", b |-> "B",
     r |-> "R", e |-> "E", p |-> "P", l |-> "L"]

\* str.lower(): every capital becomes its small letter, all else stays
lower(name) ==
    [n \in DOMAIN name |->
        IF \E c \in DOMAIN UpperOf : UpperOf[c] = name[n]
        THEN CHOOSE c \in DOMAIN UpperOf : UpperOf[c] = name[n]
        ELSE name[n]]

github == <<"g", "i", "t", "h", "u", "b">>

replit == <<"r", "e", "p", "l", "i", "t">>

\* a check that turns away Replit and lets every other source in
check_command_source_open(source_name) == lower(source_name) # replit

\* lines 8-26
check_command_source(source_name) ==
    IF lower(source_name) = replit THEN FALSE
    ELSE IF lower(source_name) = github THEN TRUE
    ELSE FALSE

\* lines 28-40: what the call logs, "Processing command" at level INFO or
\* "Command rejected" at level ERROR
process_incoming_command(command, source_name) ==
    IF check_command_source(source_name)
    THEN [level |-> "INFO", message |-> "Processing command",
          source_name |-> source_name, command |-> command]
    ELSE [level |-> "ERROR", message |-> "Command rejected",
          source_name |-> source_name, command |-> command]

\* the words sources are drawn from: the two the code names, a prefix and
\* an extension of "github", a name with a space after it, a digit in it,
\* and the empty name
SourceWords ==
    {github, replit, <<"g", "i", "t">>, github \o <<"s">>, github \o <<" ">>,
     <<"g", "1", "t", "h", "u", "b">>, <<>>}

\* every spelling of these words in small and capital letters
SourceNames ==
    {[n \in DOMAIN word |->
         IF n \in capitals /\ word[n] \in DOMAIN UpperOf
         THEN UpperOf[word[n]] ELSE word[n]] :
        word \in SourceWords, capitals \in SUBSET (1..7)}

Commands ==
    {[action |-> "update_code", details |-> "Patch security vulnerability"],
     [action |-> "restart_service", details |-> "Apply configuration changes"]}

LockdownInit ==
    /\ InitServer
    /\ heap = <<>>
    /\ db = <<>>
    /\ probe \in {[op |-> "command", command |-> command,
                   source_name |-> source_name,
                   accepted |-> Null, logged |-> Null] :
                     command \in Commands, source_name \in SourceNames}

ProbeCheckCommandSource ==
    /\ probe.op = "command"
    /\ probe.accepted = Null
    /\ probe' = [probe EXCEPT !.accepted =
                                 <<check_command_source(probe.source_name)>>]
    /\ UNCHANGED frame_probe

ProbeProcessIncomingCommand ==
    /\ probe.op = "command"
    /\ probe.logged = Null
    /\ probe' = [probe EXCEPT !.logged =
                     <<process_incoming_command(probe.command,
                                                probe.source_name)>>]
    /\ UNCHANGED frame_probe

LockdownNext == ProbeCheckCommandSource \/ ProbeProcessIncomingCommand

LockdownSpec == LockdownInit /\ [][LockdownNext]_vars

---------------------------------------------------------------------------
(* Reading the log *)

\* the events of correlation id c, in log order
Trail(c) == search(db, c)

TrailAfter(c) == search(db', c)

OfType(events, type) == SelectSeq(events, LAMBDA e : e.event_type = type)

Count(c, type) == Len(OfType(Trail(c), type))

EventTypes(events) == [n \in DOMAIN events |-> events[n].event_type]

TerminalTypes == {"document_processing_complete", "document_processing_error"}

TerminalEvents(c) == SelectSeq(Trail(c), LAMBDA e : e.event_type \in TerminalTypes)

\* the run of i has ended: returned from the try block, returned from the
\* except block, or left by an exception
Ended(i) == pc[i] \in {"done", "quarantined", "crashed"}

\* the module names of the module_execution events of c, in log order
ModulesRun(c) ==
    LET evs == OfType(Trail(c), "module_execution")
    IN  [n \in DOMAIN evs |-> evs[n].data.module]

\* the events of c of the types the pipeline's state machine names
PipelineTrail(c) ==
    EventTypes(SelectSeq(Trail(c), LAMBDA e : e.event_type # "workflow_assembly"))

\* the response being sent is a document status
Answering == "agi_processing_status" \in DOMAIN response

---------------------------------------------------------------------------
(* Claims *)

\* C1: every ended run has exactly one terminal event
\* (document_processing_complete or document_processing_error), whichever
\* step faulted.
C1_ExactlyOneTerminalEvent ==
    \A i \in CorrelationIds : Ended(i) => Len(TerminalEvents(i)) = 1

\* C2: once a run has ended, however it ended, the item's file is not in
\* staging: it is at its category destination or in quarantine.
C2_NeverLeftInStaging ==
    \A i \in CorrelationIds :
        Ended(i) =>
            /\ ~exists(file_path[i])
            /\ \/ exists(join(FinalDir(agi_determined_type[i]), basename(file_path[i])))
               \/ exists(quarantine_path(i))

\* C3: after ingest_document has staged an item and returned its id, a
\* run for that id is eventually started (its document_ingestion_start event
\* appears), under fair scheduling and unless a storage fault occurs; the
\* terminal status the claim goes on to promise presupposes this start.
C3_StagedLeadsToStart ==
    \A i \in CorrelationIds :
        (pc[i] = "staged") ~> (Count(i, "document_ingestion_start") > 0 \/ injected > 0)

\* C4: when the trail of the queried id holds a terminal event, get_status
\* reports the state of that event.
C4_StatusReportsTerminal ==
    Answering =>
        LET t == TerminalEvents(response.correlation_id)
        IN  t # <<>> => response.agi_processing_status = t[1].event_type

\* C5: when the trail of the queried id is non-empty and has no terminal
\* event, get_status reports the type and the action of the last event
\* appended for that id.
C5_StatusFromMostRecent ==
    Answering =>
        LET trail == Trail(response.correlation_id)
            last == trail[Len(trail)]
        IN  (trail # <<>> /\ TerminalEvents(response.correlation_id) = <<>>) =>
                /\ response.agi_processing_status = last.event_type
                /\ response.last_agi_action = last_action_of(last)

\* C6: for an id with no event in the log, get_status answers with status
\* "Unknown" and an empty history, and the call leaves the log unchanged.
C6_UnknownStatus ==
    /\ [](Answering /\ Trail(response.correlation_id) = <<>> =>
            /\ response.agi_processing_status = "Unknown"
            /\ response.agi_event_history = <<>>)
    /\ [][~Answering /\ Answering' => db' = db]_vars

C6_Witness ==
    /\ Answering
    /\ response.correlation_id \in CorrelationIds
    /\ pc[response.correlation_id] = "crashed"
    /\ Trail(response.correlation_id) = <<>>
    /\ db # <<>>

\* C7: at every point of a run, the module_execution events of its id name
\* the first stages of the resolved list, in order, none skipped or repeated.
C7_StagesInOrder ==
    \A i \in CorrelationIds :
        LET ran == ModulesRun(i)
            resolved == Workflow(Classify(file_path[i], upload[i].tags))
        IN  /\ Len(ran) <= Len(resolved)
            /\ ran = SubSeq(resolved, 1, Len(ran))

C7_Witness ==
    \E i \in CorrelationIds : Len(ModulesRun(i)) = 4 /\ pc[i] = "done"

\* C8: the trail of a run that returned from its try block is
\* document_ingestion_start, one document_classification, one
\* module_execution per resolved stage, document_processing_complete, one
\* agi_learning_cycle; and document_processing_complete is in the log only
\* after every stage's module_execution and after the file was moved.
C8_CompletedTrailOrder ==
    \A i \in CorrelationIds :
        LET resolved == Workflow(Classify(file_path[i], upload[i].tags))
        IN  /\ pc[i] = "done" =>
                /\ PipelineTrail(i) =
                       <<"document_ingestion_start", "document_classification">>
                       \o [n \in 1..Len(resolved) |-> "module_execution"]
                       \o <<"document_processing_complete", "agi_learning_cycle">>
                /\ ModulesRun(i) = resolved
            /\ Count(i, "document_processing_complete") > 0 =>
                /\ ModulesRun(i) = resolved
                /\ ~exists(file_path[i])
                /\ exists(final_path[i])
                /\ LET t == EventTypes(Trail(i))
                   IN  \A m, n \in DOMAIN t :
                           (t[m] = "module_execution"
                            /\ t[n] = "document_processing_complete") => m < n

C8_Witness ==
    \E i \in CorrelationIds :
        /\ pc[i] = "done"
        /\ agi_determined_type[i] = "contract"
        /\ \E j \in CorrelationIds : pc[j] = "learn"

\* C9: a fault during classification or during stage i, the run's single
\* fault, ends the run in quarantine with one document_processing_error
\* event; no module_execution for stage i or later and no
\* document_processing_complete is appended, and once the error event is in
\* the log no event of that id is appended any more.
C9_FaultQuarantines ==
    /\ [](\A i \in CorrelationIds :
            faultsite[i] \in {"classification", "stage"} =>
                /\ Len(ModulesRun(i)) = k[i] - 1
                /\ Count(i, "document_processing_complete") = 0
                /\ Count(i, "document_processing_error") <= 1
                /\ pc[i] # "done"
                /\ (Ended(i) /\ nfaults[i] = 1) =>
                       /\ pc[i] = "quarantined"
                       /\ exists(quarantine_path(i))
                       /\ ~exists(file_path[i])
                       /\ Count(i, "document_processing_error") = 1)
    /\ [][\A i \in CorrelationIds :
            Count(i, "document_processing_error") > 0 => TrailAfter(i) = Trail(i)]_vars

C9_Witness ==
    \E i \in CorrelationIds :
        /\ faultsite[i] = "stage"
        /\ k[i] = 3
        /\ pc[i] = "quarantined"
        /\ nfaults[i] = 1

Destination(category) ==
    CASE category = "contract" -> "/mnt/data/processed/contracts"
      [] category = "invoice" -> "/mnt/data/processed/invoices"
      [] category = "research_paper" -> "/mnt/data/processed/papers"
      [] OTHER -> "/mnt/data/quarantine"

\* the category recorded in the document_classification events of c
RecordedCategories(c) ==
    LET evs == OfType(Trail(c), "document_classification")
    IN  [n \in DOMAIN evs |-> evs[n].data.agi_determined_type]

\* C11: the final_path of every document_processing_complete event is where
\* the item's file is from then on (and the staged path is gone), and that
\* place is the destination directory of the one category recorded in the
\* run's document_classification event, the category whose stage list ran.
C11_FinalPathIsFileLocation ==
    \A n \in DOMAIN db :
        db[n].event_type = "document_processing_complete" =>
            LET i == db[n].data.correlation_id
                recorded == RecordedCategories(i)
                path == db[n].data.final_path
            IN  /\ Len(recorded) = 1
                /\ path = join(Destination(recorded[1]), basename(file_path[i]))
                /\ exists(path)
                /\ fs[path] = i
                /\ ~exists(file_path[i])
                /\ ModulesRun(i) = Workflow(recorded[1])

C11_Witness ==
    \E i, j \in CorrelationIds :
        /\ pc[i] = "done"
        /\ RecordedCategories(i) = <<"contract">>
        /\ pc[j] = "crashed"
        /\ RecordedCategories(j) = <<"unknown">>
        /\ Count(j, "document_processing_complete") = 1

\* the categories a human may hint, and the file-name keywords of each
HintedCategories == {"contract", "invoice", "research_paper"}

FileKeywords(c) ==
    CASE c = "contract" -> {"contract", "agreement"}
      [] c = "invoice" -> {"invoice"}
      [] c = "research_paper" -> {"research", "paper"}

TagKeywords == {"legal", "billing"}

\* C12: a file name that holds a keyword of category c (read at its most
\* favourable: a keyword of no other category, and no tag that matches a
\* rule) is classified c, and a file name and tags that match no rule are
\* classified unknown, by each classifier of the repository.
C12_KeywordDecidesCategory ==
    probe.op = "classify" =>
        LET name == PathTokens(probe.file_path)
            named == {c \in HintedCategories :
                         \E kw \in FileKeywords(c) : ContainsLower(name, kw)}
            tagged == \E kw \in TagKeywords : ContainsLower(probe.tags, kw)
            results == {probe.agi_determined_type, probe.creo_core_type} \ {None}
        IN  /\ \A c \in HintedCategories :
                   (named = {c} /\ ~tagged) => results \subseteq {c}
            /\ (named = {} /\ ~tagged) => results \subseteq {"unknown"}

\* the categories of the specification, and a label that is none of them
Categories == {"contract", "invoice", "research_paper", "unknown"}

Unrecognized == "memo"

ContractStages ==
    <<"deep_ocr_segmentation", "semantic_clause_extraction",
      "entity_resolution_graph_update", "predictive_risk_assessment_model">>

FallbackStages == <<"general_content_indexing", "topic_modeling_discovery">>

\* the run of i returned from its try block with its file at `dir`
CompletedUnder(i, dir) ==
    /\ Count(i, "document_processing_complete") = 1
    /\ Count(i, "document_processing_error") = 0
    /\ final_path[i] = join(dir, basename(file_path[i]))
    /\ exists(final_path[i])
    /\ fs[final_path[i]] = i
    /\ ~exists(file_path[i])

C14_UnknownRunCompletes ==
    \A i \in CorrelationIds :
        RecordedCategories(i) = <<"unknown">> =>
            /\ (Ended(i) /\ nfaults[i] = 0) => pc[i] = "done"
            /\ pc[i] = "done" =>
                   /\ ModulesRun(i) = FallbackStages
                   /\ CompletedUnder(i, "/mnt/data/quarantine")

C14_Witness ==
    \E i \in CorrelationIds :
        /\ pc[i] = "done"
        /\ RecordedCategories(i) = <<"unknown">>
        /\ nfaults[i] = 0
        /\ injected = MaxFaults

\* what a get_status call can read or a pipeline run can see
ServerState ==
    <<lifespan, on_startup, fs, db, clock, pc, upload, file_path,
      agi_determined_type, processing_modules, k, exc, final_path>>

\* C15: a get_status call leaves the log and the rest of the server's state
\* as they were, before and after its answer is sent, and its answer is the
\* value of get_document_status for that log and the queried id alone: two
\* successive calls for an id with no event appended in between answer
\* alike.
C15_StatusReadOnly ==
    /\ [][(~Answering /\ Answering') =>
             /\ ServerState' = ServerState
             /\ response' = get_document_status(db, response'.correlation_id)]_vars
    /\ [][(Answering /\ ~Answering') => ServerState' = ServerState]_vars

C15_Witness ==
    /\ Answering
    /\ response.correlation_id \in CorrelationIds
    /\ pc[response.correlation_id] = "sleeping"
    /\ Len(response.agi_event_history) = 4

\* how many times record r occurs in the sequence
Occurrences(events, r) == Cardinality({n \in DOMAIN events : events[n] = r})

\* C16: get_recent_events(limit, correlation_id), limit a count: the answer
\* is made of records of the log, each as often as the log holds it at most,
\* all carrying the id when one is given and drawn from the whole log when
\* none is; it is sorted by timestamp, newest first; it has limit records,
\* or all of them when there are fewer; and no record left out is newer
\* than one returned.
C16_RecentEvents ==
    (probe.op = "get_recent_events" /\ probe.returned) =>
        LET cid == probe.correlation_id
            out == probe.events
            pool == IF cid # None
                    THEN SelectSeq(db, LAMBDA e : HasCorrelationId(e, cid))
                    ELSE db
        IN  /\ \A n \in DOMAIN out :
                   /\ Occurrences(out, out[n]) <= Occurrences(pool, out[n])
                   /\ cid # None => out[n].data.correlation_id = cid
            /\ \A n \in 1..(Len(out) - 1) : out[n].timestamp >= out[n + 1].timestamp
            /\ Len(out) = IF probe.limit < Len(pool) THEN probe.limit ELSE Len(pool)
            /\ \A n \in DOMAIN pool :
                   Occurrences(out, pool[n]) < Occurrences(pool, pool[n]) =>
                       \A m \in DOMAIN out : out[m].timestamp >= pool[n].timestamp

C16_Witness ==
    /\ probe.op = "get_recent_events"
    /\ probe.returned
    /\ probe.correlation_id \in CorrelationIds
    /\ Len(db) = MaxLog
    /\ Len(probe.events) = 2
    /\ db[1].timestamp < db[2].timestamp
    /\ db[3] \notin {probe.events[n] : n \in DOMAIN probe.events}

\* C17: the log is append-only.  Every step of the service (a submission,
\* a pipeline step, a chat, a status query) leaves every record already in
\* the log in its place and unchanged; the log never shrinks; and every
\* record in it is whole: a timestamp, an event type and a payload.
C17_LogAppendOnly ==
    /\ [](\A n \in DOMAIN db : DOMAIN db[n] = {"timestamp", "event_type", "data"})
    /\ [][/\ Len(db') >= Len(db)
          /\ \A n \in DOMAIN db : db'[n] = db[n]]_vars

C17_Witness ==
    /\ Answering
    /\ \E l, m, n \in DOMAIN db :
           /\ l < m
           /\ m < n
           /\ db[l].event_type = "module_execution"
           /\ db[m].event_type = "agi_chat_response"
           /\ db[n].event_type = "document_processing_error"

\* events without their timestamps
Stripped(events) ==
    [n \in DOMAIN events |->
        [event_type |-> events[n].event_type, data |-> events[n].data]]

\* The events a run of item i appends when it runs alone and no exception
\* is raised, from the item's staged path and request only
SoloTrail(i) ==
    LET type == Classify(file_path[i], upload[i].tags)
        modules == Workflow(type)
        ev(t, d) == [event_type |-> t, data |-> d]
    IN  <<ev("document_ingestion_start",
             [correlation_id |-> i, file_path |-> file_path[i],
              metadata |-> [tags |-> upload[i].tags,
                            priority |-> upload[i].priority]]),
          ev("document_classification",
             [correlation_id |-> i, agi_determined_type |-> type]),
          ev("workflow_assembly", [correlation_id |-> i, workflow |-> modules])>>
        \o [n \in 1..Len(modules) |->
               ev("module_execution",
                  [correlation_id |-> i, module |-> modules[n],
                   status |-> "completed"])]
        \o <<ev("document_processing_complete",
                [correlation_id |-> i,
                 final_path |-> join(Destination(type), basename(file_path[i]))]),
             ev("agi_learning_cycle",
                [correlation_id |-> i, status |-> "re-theorizing completed"])>>

\* C18: however the runs interleave at their suspension points, the events
\* of one id are in the log in the order the run made them, with rising
\* timestamps, and are the events the run makes alone: the first events of
\* its solo trail, followed by its error event if the run was cut short.
\* Every record of the trail is whole.
C18_TrailAsIfAlone ==
    \A i \in CorrelationIds :
        LET trail == Trail(i)
            solo == SoloTrail(i)
            cut == /\ trail # <<>>
                   /\ trail[Len(trail)].event_type = "document_processing_error"
            made == IF cut THEN SubSeq(trail, 1, Len(trail) - 1) ELSE trail
        IN  /\ \A n \in 1..(Len(trail) - 1) :
                   trail[n].timestamp < trail[n + 1].timestamp
            /\ \A n \in DOMAIN trail :
                   DOMAIN trail[n] = {"timestamp", "event_type", "data"}
            /\ pc[i] # "ingest_failed" =>
                   /\ Len(made) <= Len(solo)
                   /\ Stripped(made) = SubSeq(solo, 1, Len(made))
                   /\ cut => trail[Len(trail)].data = error_data(i)

\* both runs completed, their events alternating in the log
C18_Witness ==
    /\ \A i \in CorrelationIds : pc[i] = "done"
    /\ \E n \in 1..(Len(db) - 3) :
           /\ db[n].data.correlation_id = IdOrder[1]
           /\ db[n + 1].data.correlation_id = IdOrder[2]
           /\ db[n + 2].data.correlation_id = IdOrder[1]
           /\ db[n + 3].data.correlation_id = IdOrder[2]

\* a run that met no fault of its own is as it is when it runs alone
UntouchedByOthers(j) ==
    (nfaults[j] = 0 /\ Ended(j)) =>
        /\ pc[j] = "done"
        /\ Stripped(Trail(j)) = SoloTrail(j)
        /\ exists(final_path[j])
        /\ fs[final_path[j]] = j

\* C19: a fault inside a run is caught by the runner: no exception leaves
\* dynamic_document_processor; and a run that met no fault of its own has
\* the trail, the file location and the outcome it has alone, whatever
\* faults the other run met.
C19_FaultContained ==
    \A i \in CorrelationIds :
        /\ pc[i] # "crashed"
        /\ UntouchedByOthers(i)

\* C20: when staging fails in ingest_document, the request ends with a
\* failure (500) and not with the correlation id's JSONResponse; the
\* processor is not registered and no run is ever started for the id (no
\* document_ingestion_start, no other event of the id); and, the staging
\* fault being the request's only fault, exactly one
\* document_ingestion_error event with the generated id, the fault's text
\* and the sanitized file name is in the log.  A request that staged its
\* file answered 200 and has no such event.
C20_IngestFailure ==
    \A i \in CorrelationIds :
        /\ faultsite[i] = "staging" =>
               /\ pc[i] = "ingest_failed"
               /\ status_code[i] = "500"
               /\ i \notin on_startup
               /\ Count(i, "document_ingestion_start") = 0
               /\ Len(Trail(i)) = Count(i, "document_ingestion_error")
               /\ Count(i, "document_ingestion_error") <= 1
               /\ nfaults[i] = 1 =>
                      /\ Count(i, "document_ingestion_error") = 1
                      /\ Trail(i)[1].data =
                             [correlation_id |-> i, error |-> StagingFault,
                              filename |-> sanitize_filename(upload[i].filename)]
        /\ (pc[i] \notin {"none", "ingest_failed"}) =>
               /\ status_code[i] = "200"
               /\ Count(i, "document_ingestion_error") = 0

C20_Witness ==
    \E i, j \in CorrelationIds :
        /\ pc[i] = "ingest_failed"
        /\ Count(i, "document_ingestion_error") = 1
        /\ exists(join(DYNAMIC_DIRS["temp_staging"],
                       <<i>> \o sanitize_filename(upload[i].filename)))
        /\ pc[j] = "done"

---------------------------------------------------------------------------
(* The stage calls of a creative cycle *)

\* the stages run_creativity_cycle calls, in the order of a full cycle
CycleStages ==
    <<"Perceive", "GenerateSeed", "MapPatterns", "Amplify">>
        \o [n \in 1..depth |-> "Transform"] \o <<"Render">>

StagesCalled(i) == [n \in DOMAIN calls[i] |-> calls[i][n].stage]

IsPrefix(s, t) == Len(s) <= Len(t) /\ s = SubSeq(t, 1, Len(s))

\* run_creativity_cycle has returned its final output
Returned(i) == "final_creative_output" \in DOMAIN locals[i]

\* C21: a creative cycle calls Perceive, GenerateSeed, MapPatterns, Amplify
\* and Render in that order, each once, with Transform called exactly
\* `depth` times inside Amplify (after MapPatterns, before Render); every
\* stage is given the output of the stage before it, Amplify returns what
\* its last Transform returned, and a completion event is stored only for a
\* cycle that made all of these calls.
C21_StagesInOrder ==
    \A i \in CorrelationIds :
        LET made == calls[i]
        IN  /\ IsPrefix(StagesCalled(i), CycleStages)
            /\ Returned(i) => StagesCalled(i) = CycleStages
            /\ Count(i, "creative_cycle_completion") > 0 => Returned(i)
            /\ \A n \in 2..Len(made) :
                   made[n].arg = IF made[n - 1].stage = "Amplify"
                                 THEN made[n - 1].arg ELSE made[n - 1].result
            /\ \A n \in 1..Len(made) :
                   made[n].stage = "Amplify" /\ made[n].result # Null
                       => /\ Len(made) >= n + depth
                          /\ made[n].result = made[n + depth].result

C21_Witness ==
    \E i \in CorrelationIds :
        /\ pc[i] = "cycle_done"
        /\ Count(i, "creative_cycle_completion") = 1
        /\ StagesCalled(i) = CycleStages
        /\ Cardinality({n \in DOMAIN calls[i] : calls[i][n].stage = "Transform"}) = depth

---------------------------------------------------------------------------
(* The amplifier *)

\* the modes of the transformations of a returned amplify call, in order:
\* the cells after the argument are the constructs the loop made
ModesApplied ==
    [j \in 1..(Len(heap) - 1) |-> heap[j + 1].transformation_applied]

AmplifyReturned == probe.op = "amplify" /\ probe.returned # Null

\* C22: amplify with depth d on a construct whose iteration_count is k makes
\* exactly d transformations and returns a construct with iteration_count
\* k + d; transformation j (from 0) is in mode
\* [stylistic, modal, conceptual, syntactic][(k + j) mod 4], so k = 0 and
\* d = 4 give stylistic, modal, conceptual, syntactic.
C22_AmplifyCountsAndModes ==
    AmplifyReturned =>
        LET d == probe.depth
            count == probe.before.iteration_count
            modes == <<"stylistic", "modal", "conceptual", "syntactic">>
        IN  /\ heap[probe.returned[1]].iteration_count = count + d
            /\ Len(ModesApplied) = d
            /\ \A j \in 0..(d - 1) :
                   ModesApplied[j + 1] = modes[((count + j) % 4) + 1]
            /\ count = 0 /\ d = 4 =>
                   ModesApplied = <<"stylistic", "modal", "conceptual", "syntactic">>

C22_Witness ==
    /\ AmplifyReturned
    /\ probe.depth = 4
    /\ probe.before.iteration_count = 3
    /\ ModesApplied = <<"syntactic", "stylistic", "modal", "conceptual">>

---------------------------------------------------------------------------
(* Faults of the creative stages *)

\* the stage calls of cycle i that raised
StageFaults(i) == {n \in DOMAIN calls[i] : calls[i][n].result = Null
                                            /\ calls[i][n].stage # "Amplify"}

\* C23: no stage of a creative cycle raises, whatever body the request
\* carried (each of text_input, image_data, audio_data, symbolic_input and
\* context given, null or absent): a cycle the environment did not disturb
\* ends with creative_cycle_completion and never with creative_cycle_error.
C23_NoStageFaults ==
    \A i \in CorrelationIds :
        /\ StageFaults(i) = {}
        /\ pc[i] = "cycle_done" /\ injected = 0
               => /\ Count(i, "creative_cycle_completion") = 1
                  /\ Count(i, "creative_cycle_error") = 0

\* the creative cycle of i has ended: run_creative_task returned or was left
\* by an exception
CycleEnded(i) == pc[i] \in {"cycle_done", "cycle_crashed"}

CreativeTerminalTypes == {"creative_cycle_completion", "creative_cycle_error"}

\* C24: when a stage of a cycle raises, no later stage is called and no
\* creative_cycle_completion is stored for the id; when that fault was the
\* cycle's only one, the ended cycle has exactly one creative_cycle_error.
\* Every creative id has at most one of creative_cycle_completion and
\* creative_cycle_error, and it follows the id's creative_cycle_initiation.
C24_StageFaultEndsCycle ==
    \A i \in CorrelationIds :
        LET trail == Trail(i)
            terminals == {n \in DOMAIN trail :
                              trail[n].event_type \in CreativeTerminalTypes}
        IN  /\ \A n \in StageFaults(i) : n = Len(calls[i])
            /\ StageFaults(i) # {} => Count(i, "creative_cycle_completion") = 0
            /\ StageFaults(i) # {} /\ nfaults[i] = 1 /\ CycleEnded(i)
                   => Count(i, "creative_cycle_error") = 1
            /\ Cardinality(terminals) <= 1
            /\ \A n \in terminals :
                   /\ n > 1
                   /\ trail[1].event_type = "creative_cycle_initiation"

C24_Witness ==
    \E i \in CorrelationIds :
        /\ pc[i] = "cycle_done"
        /\ StagesCalled(i) = <<"Perceive", "GenerateSeed">>
        /\ StageFaults(i) = {2}
        /\ EventTypes(Trail(i)) = <<"creative_cycle_initiation", "creative_cycle_error">>

---------------------------------------------------------------------------
(* The creative status endpoint *)

\* the response being sent is a creative status
AnsweringCreative == "agi_creative_event_history" \in DOMAIN response

\* C25: the creative status of an id that has no events says so: it is not
\* the status of a cycle in progress, nor that of an initiated one.
C25_UnknownCreativeId ==
    AnsweringCreative /\ Trail(response.correlation_id) = <<>>
        => response.status \notin
               {"Creative cycle in progress (AGI actively theorizing).",
                "Creative cycle initiated."}

---------------------------------------------------------------------------
(* The event vocabulary *)

Vocabulary ==
    {"document_ingestion_start", "document_classification", "workflow_assembly",
     "module_execution", "document_processing_complete", "agi_learning_cycle",
     "document_processing_error", "document_ingestion_error",
     "user_chat_message", "agi_chat_response", "creative_cycle_initiation",
     "creative_cycle_completion", "creative_cycle_error"}

\* C26: every event in the log, whichever operation stored it (the
\* WebSocket chat channel included), has an event_type of the vocabulary.
C26_FixedVocabulary == \A n \in DOMAIN db : db[n].event_type \in Vocabulary

---------------------------------------------------------------------------
(* Correlation ids and paths *)

StartTypes == {"document_ingestion_start", "creative_cycle_initiation"}

StartEvents(c) == SelectSeq(Trail(c), LAMBDA e : e.event_type \in StartTypes)

\* the ids given to requests so far
Issued == {i \in CorrelationIds : pc[i] # "none"}

\* no two requests have the same id, and with the id in the staged name no
\* two items have the same staging, final or quarantine path; every file
\* holds the bytes of the item whose id its name begins with, so no move
\* replaced a file of another item
DistinctPaths ==
    /\ \A n, m \in DOMAIN IdOrder : n # m => IdOrder[n] # IdOrder[m]
    /\ \A i, j \in Issued :
           i # j /\ file_path[i] # NoPath /\ file_path[j] # NoPath
               => /\ file_path[i] # file_path[j]
                  /\ quarantine_path(i) # quarantine_path(j)
                  /\ \A d \in {DYNAMIC_DIRS[c] : c \in DOMAIN DYNAMIC_DIRS} :
                         join(d, basename(file_path[i]))
                             # join(d, basename(file_path[j]))
                  /\ final_path[i] # NoPath => final_path[i] # final_path[j]
    /\ \A p \in DOMAIN fs : p.base[1] = fs[p]

\* C27 as stated: ids and paths are distinct, and each correlation id in the
\* log has exactly one start event (document_ingestion_start or
\* creative_cycle_initiation).
C27_ExactlyOneStart ==
    /\ DistinctPaths
    /\ \A i \in Issued : Trail(i) # <<>> => Len(StartEvents(i)) = 1

\* C27, amended: ids and paths are distinct; each correlation id has at most
\* one start event, and an id with any event other than
\* document_ingestion_error has exactly one, as the first event of its
\* trail.  An id whose ingestion failed has document_ingestion_error alone.
C27_AtMostOneStart ==
    /\ DistinctPaths
    /\ \A i \in Issued :
           LET trail == Trail(i)
           IN  /\ Len(StartEvents(i)) <= 1
               /\ (\E n \in DOMAIN trail :
                       trail[n].event_type # "document_ingestion_error")
                      => /\ Len(StartEvents(i)) = 1
                         /\ trail[1].event_type \in StartTypes

C27_Witness ==
    \E i, j \in Issued :
        /\ i # j
        /\ upload[i].filename = upload[j].filename
        /\ pc[i] = "done" /\ pc[j] = "done"
        /\ final_path[i].dir = final_path[j].dir
        /\ exists(final_path[i]) /\ exists(final_path[j])
        /\ Len(StartEvents(i)) = 1 /\ Len(StartEvents(j)) = 1

---------------------------------------------------------------------------
(* The chat endpoint *)

\* the response being sent is a chat reply
ChatAnswered == "response" \in DOMAIN response

\* what the pipeline runs own: files, positions, local variables
PipelineState ==
    <<on_startup, fs, pc, upload, file_path, agi_determined_type,
      processing_modules, k, exc, final_path, status_code>>

\* C28: a chat_with_agi call that returns has appended exactly two events,
\* user_chat_message and then agi_chat_response, in one step of the event
\* loop; its return value is the chat_reasoning stage's reply to the
\* message, the value the agi_chat_response event records; neither event
\* carries a correlation id, every id's trail is as before, and so is every
\* pipeline run's state.
C28_ChatIsSynchronous ==
    [][~ChatAnswered /\ ChatAnswered' =>
          LET user == db'[Len(db) + 1]
              agi == db'[Len(db) + 2]
          IN  /\ Len(db') = Len(db) + 2
              /\ SubSeq(db', 1, Len(db)) = db
              /\ user.event_type = "user_chat_message"
              /\ agi.event_type = "agi_chat_response"
              /\ agi.data.response = response'.response
              /\ response'.response[1] = "AGI EchoNexus Core: Received '"
              /\ response'.response[2] = user.data.message
              /\ "correlation_id" \notin DOMAIN user.data \cup DOMAIN agi.data
              /\ \A c \in CorrelationIds \cup {UnknownId} :
                     TrailAfter(c) = Trail(c)
              /\ PipelineState' = PipelineState]_vars

C28_Witness ==
    /\ ChatAnswered
    /\ \E i \in CorrelationIds : pc[i] = "sleeping" /\ Len(Trail(i)) >= 3
    /\ db[Len(db)].event_type = "agi_chat_response"
    /\ db[Len(db)].data.response = response.response

---------------------------------------------------------------------------
(* Classification *)

\* the category, stage list and destination the log and the run's state
\* record for c, each None-like until it is made
ClassificationOf(c) ==
    LET classified == OfType(Trail(c), "document_classification")
        assembled == OfType(Trail(c), "workflow_assembly")
    IN  [category |-> IF classified = <<>> THEN <<>>
                      ELSE <<classified[1].data.agi_determined_type>>,
         stages |-> IF assembled = <<>> THEN <<>>
                    ELSE <<assembled[1].data.workflow>>,
         destination |-> IF final_path[c] = NoPath THEN <<>>
                         ELSE <<final_path[c].dir>>]

\* both are made, and are the same
Agree(a, b) == a # <<>> /\ b # <<>> => a = b

\* C29: two runs whose file name and tags are the same get the same
\* category, the same stage list and the same destination, whatever their
\* priority, document_type hint, custom options, correlation id and the log
\* they met; and the classification step changes nothing but the log, to
\* which it appends the run's document_classification event (and the run's
\* own local variable and position).
C29_ClassificationBySignals ==
    /\ [](\A i, j \in CorrelationIds :
             upload[i].filename = upload[j].filename
                 /\ upload[i].tags = upload[j].tags
                 => /\ Agree(ClassificationOf(i).category, ClassificationOf(j).category)
                    /\ Agree(ClassificationOf(i).stages, ClassificationOf(j).stages)
                    /\ Agree(ClassificationOf(i).destination,
                             ClassificationOf(j).destination))
    /\ [][\A i \in CorrelationIds :
              Count(i, "document_classification")' # Count(i, "document_classification")
                  => /\ db' = Append(db, db'[Len(db')])
                     /\ db'[Len(db')].event_type = "document_classification"
                     /\ db'[Len(db')].data.correlation_id = i
                     /\ <<lifespan, on_startup, fs, upload, file_path,
                          processing_modules, k, exc, final_path, status_code>>'
                          = <<lifespan, on_startup, fs, upload, file_path,
                              processing_modules, k, exc, final_path, status_code>>
                     /\ \A j \in CorrelationIds \ {i} :
                            /\ pc'[j] = pc[j]
                            /\ agi_determined_type'[j] = agi_determined_type[j]]_vars

C29_Witness ==
    \E i, j \in CorrelationIds :
        /\ i # j
        /\ ClassificationOf(i).category = <<"contract">>
        /\ ClassificationOf(j).category = <<"contract">>
        /\ ClassificationOf(i).stages = ClassificationOf(j).stages
        /\ ClassificationOf(i).destination = <<DYNAMIC_DIRS["contract"]>>
        /\ ClassificationOf(j).destination = <<DYNAMIC_DIRS["contract"]>>
        /\ upload[i].priority # upload[j].priority
        /\ upload[i].document_type # upload[j].document_type

---------------------------------------------------------------------------
(* The stages and their argument *)

StageReturned ==
    /\ probe.op \in {"transform", "map_patterns", "render_output"}
    /\ probe.returned # Null

\* C30: transform, map_patterns and render_output return a construct other
\* than their argument and leave the argument as it was (value,
\* iteration_count, type and every other key); the construct map_patterns
\* or render_output returns has the argument's value, type and
\* iteration_count; the one transform returns has a new value, the
\* argument's type and an iteration_count greater by exactly 1.
C30_StagesLeaveInput ==
    StageReturned =>
        LET input == heap[probe.arg]
            output == heap[probe.returned[1]]
        IN  /\ probe.returned[1] # probe.arg
            /\ input = probe.before
            /\ output.type = input.type
            /\ probe.op \in {"map_patterns", "render_output"}
                   => /\ output.value = input.value
                      /\ output.iteration_count = input.iteration_count
            /\ probe.op = "transform"
                   => /\ output.value # input.value
                      /\ output.iteration_count = input.iteration_count + 1

C30_Witness ==
    /\ StageReturned
    /\ probe.op = "transform"
    /\ probe.before.iteration_count = 2
    /\ heap[probe.arg].iteration_count = 2
    /\ heap[probe.returned[1]].iteration_count = 3
    /\ heap[probe.returned[1]].transformation_applied = "conceptual"

---------------------------------------------------------------------------
(* The order of the classifier's rules *)

\* the rules a probe's path and tags match, letter case aside
RuleMatches ==
    LET name == PathTokens(probe.file_path)
    IN  [contract |-> \/ \E n \in DOMAIN name : Lower(name[n]) \in {"contract", "agreement"}
                      \/ \E n \in DOMAIN probe.tags : Lower(probe.tags[n]) = "legal",
         invoice |-> \/ \E n \in DOMAIN name : Lower(name[n]) = "invoice"
                     \/ \E n \in DOMAIN probe.tags : Lower(probe.tags[n]) = "billing",
         research_paper |-> \E n \in DOMAIN name : Lower(name[n]) \in {"research", "paper"}]

ClassifyAnswered == probe.op = "classify" /\ probe.agi_determined_type # None

\* C31: main.py's classifier tries its rules in order and the first that
\* matches decides: the contract rule (path holds "contract" or "agreement",
\* or tags hold "legal") wins over the invoice and research_paper rules, the
\* invoice rule (path holds "invoice" or tags hold "billing") over the
\* research_paper rule (path holds "research" or "paper"); when none
\* matches the category is unknown; letter case does not matter.
C31_FirstMatchWins ==
    ClassifyAnswered =>
        LET m == RuleMatches
            type == probe.agi_determined_type
        IN  /\ m.contract => type = "contract"
            /\ ~m.contract /\ m.invoice => type = "invoice"
            /\ ~m.contract /\ ~m.invoice /\ m.research_paper
                   => type = "research_paper"
            /\ ~m.contract /\ ~m.invoice /\ ~m.research_paper => type = "unknown"

C31_Witness ==
    /\ ClassifyAnswered
    /\ basename(probe.file_path) = <<IdOrder[1], "INVOICE", "paper">>
    /\ probe.tags = <<"Legal">>
    /\ probe.agi_determined_type = "contract"

---------------------------------------------------------------------------
(* The creative status *)

\* C32: the creative status of an id is "completed" when the id has a
\* creative_cycle_completion event, and final_creative_output is then the
\* rendered_representation of such an event's result; otherwise it is the
\* error status when the id has a creative_cycle_error event, otherwise the
\* in-progress status, both without final_creative_output.  The status is
\* "completed" only for an id that has a completion event.
C32_StatusPrecedence ==
    AnsweringCreative =>
        LET trail == Trail(response.correlation_id)
            completions == OfType(trail, "creative_cycle_completion")
            errors == OfType(trail, "creative_cycle_error")
        IN  /\ completions # <<>>
                   => /\ response.status = "Creative cycle completed."
                      /\ \E n \in DOMAIN completions :
                             response.final_creative_output =
                                 <<completions[n].data.result.rendered_representation>>
            /\ completions = <<>> /\ errors # <<>>
                   => /\ response.status = "Creative cycle encountered an error."
                      /\ response.final_creative_output = Null
            /\ completions = <<>> /\ errors = <<>>
                   => /\ response.status =
                             "Creative cycle in progress (AGI actively theorizing)."
                      /\ response.final_creative_output = Null
            /\ response.status = "Creative cycle completed." => completions # <<>>

C32_Witness ==
    /\ AnsweringCreative
    /\ response.status = "Creative cycle completed."
    /\ EventTypes(Trail(response.correlation_id))
           = <<"creative_cycle_initiation", "creative_cycle_completion",
               "creative_cycle_error">>
    /\ response.final_creative_output = <<db[2].data.result.rendered_representation>>

---------------------------------------------------------------------------
(* Termination of a started run *)

Started(i) == OfType(Trail(i), "document_ingestion_start") # <<>>

\* C33: under fair scheduling and with no storage fault, a run that has
\* appended document_ingestion_start eventually appends
\* document_processing_complete or document_processing_error, whatever the
\* other runs do; and no run executes more stages than its stage list has.
C33_StartedRunTerminates ==
    /\ [](\A i \in CorrelationIds :
              Len(ModulesRun(i)) <= Len(processing_modules[i]))
    /\ \A i \in CorrelationIds :
           Started(i) ~> TerminalEvents(i) # <<>>

C33_Witness ==
    \E i, j \in CorrelationIds :
        /\ i # j
        /\ injected = 0
        /\ TerminalEvents(i) # <<>>
        /\ Len(ModulesRun(i)) = Len(processing_modules[i])
        /\ Len(ModulesRun(i)) = 4
        /\ pc[j] = "sleeping"

---------------------------------------------------------------------------
(* The admin lockdown *)

\* two characters are the same letter, whatever their case
SameLetter(a, b) ==
    \/ a = b
    \/ \E c \in DOMAIN UpperOf : {a, b} = {c, UpperOf[c]}

\* two names are equal when case is ignored
EqualIgnoringCase(a, b) ==
    /\ Len(a) = Len(b)
    /\ \A n \in DOMAIN a : SameLetter(a[n], b[n])

\* C34: under the lockdown check_command_source accepts a source exactly
\* when its name is "github" in some letter case, so "replit" in any case
\* and every other source is rejected; and process_incoming_command
\* processes a command only of a source that check_command_source accepts.
C34_OnlyGithubAccepted ==
    probe.op = "command" =>
        LET is_github == EqualIgnoringCase(probe.source_name, github)
        IN  /\ probe.accepted # Null => (probe.accepted[1] <=> is_github)
            /\ (probe.accepted # Null
                   /\ EqualIgnoringCase(probe.source_name, replit))
                   => probe.accepted[1] = FALSE
            /\ probe.logged # Null
                   => (probe.logged[1].message = "Processing command"
                           <=> is_github)
            /\ (probe.logged # Null /\ probe.accepted # Null)
                   => (probe.logged[1].message = "Processing command"
                           => probe.accepted[1])

C34_Witness ==
    /\ probe.op = "command"
    /\ probe.source_name = <<"G", "i", "t", "H", "u", "b">>
    /\ probe.accepted = <<TRUE>>
    /\ probe.logged # Null
    /\ probe.logged[1].message = "Processing command"

---------------------------------------------------------------------------
(* Faults after the move to the final destination *)

\* the run of i met its first fault after its file was moved
FaultAfterMove(i) == faultsite[i] \in {"complete", "learning"}

\* C35: when appending document_processing_complete or agi_learning_cycle
\* fails, the file has left staging, so the handler's move to quarantine
\* fails too, the fault leaves the runner and no document_processing_error
\* is appended; no id has both a document_processing_complete and a
\* document_processing_error event; and a file is moved only out of
\* staging, hence never a second time.
C35_NoErrorAfterMove ==
    /\ [](\A i \in CorrelationIds :
              LET trail == Trail(i)
                  errors == OfType(trail, "document_processing_error")
              IN  /\ FaultAfterMove(i) =>
                         /\ ~exists(file_path[i])
                         /\ pc[i] \in {"handler", "crashed"}
                         /\ pc[i] = "crashed" => exc[i] = FileNotFound
                         /\ errors = <<>>
                  /\ errors = <<>>
                         \/ OfType(trail, "document_processing_complete") = <<>>)
    /\ [][\A p \in DOMAIN fs :
              (p \notin DOMAIN fs' \/ fs'[p] # fs[p]) =>
                  \E i \in CorrelationIds :
                      /\ p = file_path[i]
                      /\ pc[i] \in {"move", "handler"}
                      /\ pc'[i] \in {"complete", "log_error"}]_vars

C35_Witness ==
    \E i \in CorrelationIds :
        /\ faultsite[i] = "complete"
        /\ pc[i] = "crashed"
        /\ exc[i] = FileNotFound
        /\ exists(final_path[i])
        /\ TerminalEvents(i) = <<>>

---------------------------------------------------------------------------
(* The length of a trail *)

Range(seq) == {seq[n] : n \in DOMAIN seq}

\* C36: the trail of a document id never has more events than the default
\* limit of get_recent_events (at most nine: start, classification,
\* workflow_assembly, up to four module_execution, completion and learning
\* cycle, or an error event in their place), so the history get_status
\* returns holds every event of the queried id's trail.
C36_TrailWithinLimit ==
    /\ \A i \in CorrelationIds :
           LET trail == Trail(i)
           IN  /\ Len(trail) <= DefaultLimit
               /\ Len(trail) <= 5 + Len(processing_modules[i])
               /\ Len(processing_modules[i]) <= 4
    /\ Answering =>
           LET trail == Trail(response.correlation_id)
           IN  /\ Len(response.agi_event_history) = Len(trail)
               /\ Range(response.agi_event_history) = Range(trail)

C36_Witness ==
    /\ Answering
    /\ Len(response.agi_event_history) = 9
    /\ Len(Trail(response.correlation_id)) = 9
    /\ response.agi_event_history[1].event_type = "agi_learning_cycle"

---------------------------------------------------------------------------
(* The workflow_assembly event *)

\* the run of i is past line 121, by the append or by its failure
PastAssembly(i) ==
    /\ OfType(Trail(i), "document_classification") # <<>>
    /\ pc[i] \notin {"assemble"}

---------------------------------------------------------------------------
(* The output format of a cycle *)

CycleRendered == probe.op = "run_creativity_cycle" /\ probe.returned # Null

\* C38: after map_patterns, amplify and render_output on a seed, the
\* final_output_format is symbolic_representation exactly when the seed's
\* type is symbolic and the amplifier's depth is at least 1, and
\* text_summary in every other case, whichever transformation modes were
\* applied.
C38_SymbolicFormat ==
    CycleRendered =>
        LET final_creative_output == heap[probe.returned[1]]
            symbolic == probe.before.type = "symbolic" /\ probe.depth >= 1
        IN  /\ final_creative_output.final_output_format
                   = IF symbolic THEN "symbolic_representation"
                     ELSE "text_summary"
            /\ final_creative_output.rendered_representation[2]
                   = final_creative_output.final_output_format

C38_Witness ==
    /\ CycleRendered
    /\ probe.before.type = "symbolic"
    /\ probe.before.iteration_count = 0
    /\ probe.depth = depth
    /\ heap[probe.returned[1]].final_output_format = "symbolic_representation"
    /\ heap[probe.returned[1]].transformation_applied = "syntactic"

===========================================================================
